---- MODULE Spec2Model ----
(***************************************************************************)
(* Verification model of the Jobly orchestration core.                     *)
(*                                                                         *)
(* Part 1: the human-in-the-loop approval gate                             *)
(*   (backend/jobly/workflows/approval_gate.py) and the workflow manager   *)
(*   that sits above it (backend/jobly/workflows/workflow_manager.py).     *)
(*                                                                         *)
(* An ApprovalRequest object is identified by its request_id (a uuid4, so  *)
(* never reused).  The variable `requests` is the object store: it maps a  *)
(* request_id to the fields of the ApprovalRequest object carrying it.     *)
(* The three partition dicts of the gate map a request_id to that object,  *)
(* so each is modelled by its key set; the value under key k is            *)
(* requests[k].  Python objects are shared by reference, and this keeps    *)
(* the sharing: a field write through any reference is seen through every  *)
(* other one.                                                              *)
(***************************************************************************)
EXTENDS Integers, Sequences, FiniteSets, TLC

\* ---------------------------------------------------------------- bounds
\* number of request ids (uuid4 values) the gate may issue in one run
MaxRequests == 2
\* last instant of the clock behind datetime.utcnow(), in days
MaxTime == 1
\* number of threads calling into the gate concurrently
NumThreads == 2
\* the longest name list handed to the coordinator
MaxSteps == 2
\* the most records the coordinator's history holds
MaxHistory == 3
\* the most requests the manager files with the gate
MaxFiled == 1
\* the most transitions a StateMachine makes
MaxTransitions == 3

\* ------------------------------------------------------------ input sets
\* Python's None
None == "None"

\* ApprovalStatus (approval_gate.py:10-16)
PENDING == "pending"
APPROVED == "approved"
REJECTED == "rejected"
EXPIRED == "expired"
ApprovalStatus == {PENDING, APPROVED, REJECTED, EXPIRED}

\* None in a datetime field (reviewed_at: Optional[datetime] = None); the
\* clock never shows it
NoTime == -1

\* the owners of requests, the reviewers deciding them, the notes they leave
Owners == {"user123"}
Reviewers == {"reviewer1"}
Notes == {"Looks good!"}
\* the threads calling into one gate at the same time
Threads == 1..NumThreads
\* request ids: the i-th uuid4 drawn is represented by i
RequestIds == 1..MaxRequests
\* ids a caller may pass: every id that can be issued, and one that never is
AnyIds == RequestIds \cup {0}

\* callbacks a caller may supply: one that returns, one that raises an
\* Exception when invoked
Callbacks == {"cb_ok", "cb_raise"}
Raises(cb) == cb = "cb_raise"

\* payload values: Python ints, bools and strs
PyInt(n) == [t |-> "int", v |-> n]
PyBool(b) == [t |-> "bool", v |-> IF b THEN 1 ELSE 0]
PyStr(s) == [t |-> "str", s |-> s]
\* Python's == on these values: bool is a subtype of int (True == 1)
PyEq(a, b) ==
    IF a.t \in {"int", "bool"} /\ b.t \in {"int", "bool"}
    THEN a.v = b.v
    ELSE a.t = b.t /\ a = b

\* a dict is a function from its key set
EmptyDict == [k \in {} |-> None]
AmountIs(n) == [k \in {"amount"} |-> PyInt(n)]
\* payloads handed to the manager
Payloads == {AmountIs(0), AmountIs(5)}
\* auto-approve condition sets a workflow may be registered with
ConditionSets == {EmptyDict, AmountIs(0)}
\* dict.get(key, default)
DictGet(d, k, default) == IF k \in DOMAIN d THEN d[k] ELSE default
\* d[k] = v
DictSet(d, k, v) == [x \in DOMAIN d \cup {k} |-> IF x = k THEN v ELSE d[x]]
\* del d[k]
DictDel(d, k) == [x \in DOMAIN d \ {k} |-> d[x]]

\* workflow ids callers register, with the name and action they register
WorkflowIds == {"apply_to_job"}
WorkflowName(w) == "Apply to Job"
WorkflowAction(w) == w
\* workflow ids callers execute: the registrable ones and one never registered
ExecutedIds == WorkflowIds \cup {"no_such_workflow"}
\* the arguments of a direct create_approval_request call
DirectAction == "custom"
DirectTitle == "Custom Action"
DirectDescription == "Test callback"

\* the days arguments given to clear_old_requests (an int; a negative one
\* puts the cutoff in the future)
DaysChoices == {-1, 0, 1}

\* ----------------------------------------------------------------- state
VARIABLES
    requests,           \* object store: request_id -> ApprovalRequest fields
    pending_requests,   \* ApprovalGate.pending_requests (key set)
    approved_requests,  \* ApprovalGate.approved_requests (key set)
    rejected_requests,  \* ApprovalGate.rejected_requests (key set)
    callbacks,          \* ApprovalGate.callbacks: request_id -> callback
    uuids_issued,       \* how many uuid4 values have been drawn
    now,                \* the clock read by datetime.utcnow()
    workflow_configs,   \* WorkflowManager.workflow_configs
    call,               \* the last operation called, with its arguments
    ret,                \* what that operation returned
    exc,                \* the exception it raised to its caller, or None
    fired,              \* the callback invocations that operation made
    invoked,            \* request_id -> times its stored callback has run
    seen_in,            \* request_id -> the partitions that have held it
    threads,            \* concurrent callers: thread -> the call it is inside
    decided,            \* request_id -> approve/reject/cancel calls of
                        \* concurrent callers that returned True for it
    agents,             \* AgentCoordinator.agents: name -> agent
    registered,         \* history: the agent last passed to register_agent, by name
    execution_history,  \* AgentCoordinator.execution_history
    co,                 \* the execute_workflow call of the coordinator that
                        \* is under way: its arguments, locals and position
    executing,          \* the agent.execute calls that have started and not
                        \* yet returned or raised
    current_state,      \* StateMachine.current_state
    state_history,      \* StateMachine.state_history
    context,            \* StateMachine.context
    transitions_made,   \* how many transition calls have returned True
    error_handler,      \* the ErrorHandlerAgent: its config and state
    executes,           \* the record of every call of its execute, in order
    loop,               \* a caller's retry loop around the ErrorHandlerAgent
    limiter,            \* the RateLimiter: max_calls, time_window, calls
    clock,              \* the clock read by time.time()
    wrapper,            \* each thread's call of the rate-limited function
    invocations         \* the calls of the wrapped function made so far

gate_vars == <<requests, pending_requests, approved_requests,
               rejected_requests, callbacks, uuids_issued>>
caller_vars == <<call, ret, exc, fired>>
thread_vars == <<threads, decided>>
coordinator_vars == <<agents, registered, execution_history, co>>
sm_vars == <<current_state, state_history, context, transitions_made>>
eh_vars == <<error_handler, executes, loop>>
rl_vars == <<limiter, clock, wrapper, invocations>>
later_vars == <<executing, sm_vars, eh_vars, rl_vars>>
vars == <<requests, pending_requests, approved_requests, rejected_requests,
          callbacks, uuids_issued, now, workflow_configs, call, ret, exc, fired,
          invoked, seen_in, threads, decided, agents, registered,
          execution_history, co,
          executing, current_state, state_history, context, transitions_made,
          error_handler, executes, loop, limiter, clock, wrapper, invocations>>

\* no StateMachine has been constructed
NoState == "no state machine"
\* no ErrorHandlerAgent has been constructed
NoAgent == [made |-> FALSE, config |-> EmptyDict, state |-> EmptyDict]
\* no retry loop is running
NoLoop == [pc |-> "idle"]
\* no RateLimiter has been constructed
NoLimiter == [made |-> FALSE, max_calls |-> 0, time_window |-> 0, calls |-> <<>>]
\* no call of the rate-limited function is under way
NoCall == [pc |-> "idle"]

\* no execute_workflow call of the coordinator is under way
NoRun == [pc |-> "idle", workflow |-> <<>>, input_data |-> EmptyDict,
          i |-> 1, result |-> EmptyDict, passed |-> <<>>, base |-> 0,
          ret |-> EmptyDict]

\* a thread that is not inside a call of the gate
Idle == [pc |-> "idle", op |-> "none", request_id |-> 0, callback |-> None,
         execute_callback |-> FALSE, ret |-> FALSE, exc |-> None]

\* ApprovalGate.__init__ and WorkflowManager.__init__
Init ==
    /\ requests = EmptyDict
    /\ pending_requests = {}
    /\ approved_requests = {}
    /\ rejected_requests = {}
    /\ callbacks = EmptyDict
    /\ uuids_issued = 0
    /\ now = 0
    /\ workflow_configs = EmptyDict
    /\ call = [op |-> "init"]
    /\ ret = None
    /\ exc = None
    /\ fired = <<>>
    /\ invoked = [i \in RequestIds |-> 0]
    /\ seen_in = [i \in RequestIds |-> {}]
    /\ threads = [t \in Threads |-> Idle]
    /\ decided = [i \in RequestIds |-> 0]
    /\ agents = EmptyDict
    /\ registered = EmptyDict
    /\ execution_history = <<>>
    /\ co = NoRun
    /\ executing = {}
    /\ current_state = NoState
    /\ state_history = <<>>
    /\ context = EmptyDict
    /\ transitions_made = 0
    /\ error_handler = NoAgent
    /\ executes = <<>>
    /\ loop = NoLoop
    /\ limiter = NoLimiter
    /\ clock = 0
    /\ wrapper = [t \in Threads |-> NoCall]
    /\ invocations = <<>>

\* --------------------------------------------------------- gate: queries
\* an Optional[ApprovalRequest] result: Nothing is None, Just(r) is r
Nothing == <<>>
Just(r) == <<r>>

\* ApprovalGate.get_request
get_request(request_id) ==
    IF request_id \in pending_requests THEN Just(requests[request_id])
    ELSE IF request_id \in approved_requests THEN Just(requests[request_id])
    ELSE IF request_id \in rejected_requests THEN Just(requests[request_id])
    ELSE Nothing

\* ApprovalGate.get_pending_requests, line 132 `if user_id:`: the filter is
\* applied to a truthy user_id; None and the empty string select no filter
get_pending_requests(user_id) ==
    IF user_id # None /\ user_id # ""
    THEN {requests[i] : i \in {j \in pending_requests : requests[j].user_id = user_id}}
    ELSE {requests[i] : i \in pending_requests}

\* the requests of one partition whose owner is user_id
OwnedIn(partition, user_id) ==
    {requests[i] : i \in {j \in partition : requests[j].user_id = user_id}}

\* ApprovalGate.get_user_requests
get_user_requests(user_id) ==
    [pending |-> OwnedIn(pending_requests, user_id),
     approved |-> OwnedIn(approved_requests, user_id),
     rejected |-> OwnedIn(rejected_requests, user_id)]

\* ------------------------------------------------------ gate: operations
\* the names of the partitions holding request_id
PartitionsOf(request_id) ==
    {p \in {PENDING, APPROVED, REJECTED} :
        \/ p = PENDING /\ request_id \in pending_requests
        \/ p = APPROVED /\ request_id \in approved_requests
        \/ p = REJECTED /\ request_id \in rejected_requests}

\* bookkeeping at the end of every operation: remember where each request is
Track == seen_in' = [i \in RequestIds |-> seen_in[i] \cup PartitionsOf(i)']

\* the ApprovalRequest built by create_approval_request (lines 85-94)
NewRequest(request_id, user_id, action, title, description, data) ==
    [request_id |-> request_id, user_id |-> user_id, action |-> action,
     title |-> title, description |-> description, data |-> data,
     status |-> PENDING, created_at |-> now, reviewed_at |-> NoTime,
     reviewed_by |-> None, reviewer_notes |-> None]

\* the objects the gate still refers to once its partitions hold `keys`: an
\* object that no partition refers to any more is out of the gate's reach
StoreOf(reqs, keys) == [i \in DOMAIN reqs \cap keys |-> reqs[i]]

\* a variant of KeepCallback that forgets the callback
KeepCallback_Never(request_id, callback) == callbacks

\* create_approval_request lines 98-99: if callback: self.callbacks[id] = callback
KeepCallback(request_id, callback) ==
    IF callback # None
    THEN DictSet(callbacks, request_id, callback)
    ELSE callbacks

\* the body of create_approval_request: what it does to the gate
CreateRequest(user_id, action, title, description, data, callback) ==
    LET request_id == uuids_issued + 1 IN
    /\ uuids_issued < MaxRequests
    /\ uuids_issued' = request_id
    /\ requests' = DictSet(requests, request_id,
                     NewRequest(request_id, user_id, action, title, description, data))
    /\ pending_requests' = pending_requests \cup {request_id}
    /\ callbacks' = KeepCallback(request_id, callback)
    /\ UNCHANGED <<approved_requests, rejected_requests>>

\* ApprovalGate.create_approval_request
create_approval_request(user_id, action, title, description, data, callback) ==
    /\ UNCHANGED coordinator_vars
    /\ UNCHANGED later_vars
    /\ CreateRequest(user_id, action, title, description, data, callback)
    /\ call' = [op |-> "create_approval_request", callback |-> callback]
    /\ ret' = uuids_issued'
    /\ fired' = <<>>
    /\ exc' = None
    /\ UNCHANGED <<now, workflow_configs, invoked, thread_vars>>
    /\ Track

\* a variant of IsPending that looks the id up in every partition
IsPending_Anywhere(request_id) ==
    request_id \in pending_requests \cup approved_requests \cup rejected_requests

\* a variant of IsPending that also accepts an approved request
IsPending_OrApproved(request_id) ==
    request_id \in pending_requests \cup approved_requests

\* approve_request lines 158-161 / reject_request lines 198-201:
\* request = self.pending_requests.get(request_id); if not request: return False
IsPending(request_id) == request_id \in pending_requests

\* a variant of ApprovedFields that forgets the reviewer's notes
ApprovedFields_WithoutNotes(request, reviewed_by, notes) ==
    [request EXCEPT !.status = APPROVED, !.reviewed_at = now,
                    !.reviewed_by = reviewed_by]

\* approve_request lines 164-167: the fields written on approval
ApprovedFields(request, reviewed_by, notes) ==
    [request EXCEPT !.status = APPROVED, !.reviewed_at = now,
                    !.reviewed_by = reviewed_by, !.reviewer_notes = notes]

\* a variant of RunsCallback that ignores execute_callback
RunsCallback_IgnoringFlag(request_id, execute_callback) ==
    request_id \in DOMAIN callbacks

\* approve_request line 174: whether the stored callback is invoked
RunsCallback(request_id, execute_callback) ==
    execute_callback /\ request_id \in DOMAIN callbacks

\* one invocation callback(arg): what was called, with what, and how it ended
Invocation(callback, arg) ==
    [callback |-> callback, arg |-> arg,
     outcome |-> IF Raises(callback) THEN "raised" ELSE "returned"]

\* a variant of Propagated without the try/except
Propagated_Uncaught(outcome) == IF outcome = "raised" THEN "Exception" ELSE None

\* approve_request lines 175-178: the try/except around the callback; what
\* reaches the caller of approve_request when the callback ended with `outcome`
Propagated(outcome) == None

\* ApprovalGate.approve_request
approve_request(request_id, reviewed_by, notes, execute_callback) ==
    /\ UNCHANGED coordinator_vars
    /\ UNCHANGED later_vars
    /\ call' = [op |-> "approve_request", request_id |-> request_id,
                reviewed_by |-> reviewed_by, notes |-> notes,
                execute_callback |-> execute_callback]
    /\ IF ~IsPending(request_id)
       THEN /\ ret' = FALSE
            /\ exc' = None
            /\ fired' = <<>>
            /\ UNCHANGED <<gate_vars, invoked>>
       ELSE /\ requests' = [requests EXCEPT ![request_id] =
                               ApprovedFields(@, reviewed_by, notes)]
            /\ pending_requests' = pending_requests \ {request_id}
            /\ approved_requests' = approved_requests \cup {request_id}
            /\ IF RunsCallback(request_id, execute_callback)
               THEN /\ fired' = <<Invocation(callbacks[request_id],
                                             requests'[request_id])>>
                    /\ invoked' = [invoked EXCEPT ![request_id] = @ + 1]
                    /\ exc' = Propagated(fired'[1].outcome)
                    /\ ret' = IF exc' = None THEN TRUE ELSE None
               ELSE /\ fired' = <<>>
                    /\ exc' = None
                    /\ ret' = TRUE
                    /\ UNCHANGED invoked
            /\ UNCHANGED <<rejected_requests, callbacks, uuids_issued>>
    /\ UNCHANGED <<now, workflow_configs, thread_vars>>
    /\ Track

\* a variant of RejectedFields that writes the status of an approval
RejectedFields_AsApproved(request, reviewed_by, notes) ==
    [request EXCEPT !.status = APPROVED, !.reviewed_at = now,
                    !.reviewed_by = reviewed_by, !.reviewer_notes = notes]

\* reject_request lines 204-207: the fields written on rejection
RejectedFields(request, reviewed_by, notes) ==
    [request EXCEPT !.status = REJECTED, !.reviewed_at = now,
                    !.reviewed_by = reviewed_by, !.reviewer_notes = notes]

\* a variant of DropCallback that leaves the callback in place
DropCallback_Keeping(request_id) == callbacks

\* reject_request lines 213-215 / cancel_request lines 231-233:
\* if request_id in self.callbacks: del self.callbacks[request_id]
DropCallback(request_id) ==
    IF request_id \in DOMAIN callbacks
    THEN DictDel(callbacks, request_id)
    ELSE callbacks

\* ApprovalGate.reject_request
reject_request(request_id, reviewed_by, notes) ==
    /\ UNCHANGED coordinator_vars
    /\ UNCHANGED later_vars
    /\ call' = [op |-> "reject_request", request_id |-> request_id,
                reviewed_by |-> reviewed_by, notes |-> notes]
    /\ fired' = <<>>
    /\ IF ~IsPending(request_id)
       THEN /\ ret' = FALSE
            /\ UNCHANGED gate_vars
       ELSE /\ requests' = [requests EXCEPT ![request_id] =
                               RejectedFields(@, reviewed_by, notes)]
            /\ pending_requests' = pending_requests \ {request_id}
            /\ rejected_requests' = rejected_requests \cup {request_id}
            /\ callbacks' = DropCallback(request_id)
            /\ ret' = TRUE
            /\ UNCHANGED <<approved_requests, uuids_issued>>
    /\ exc' = None
    /\ UNCHANGED <<now, workflow_configs, invoked, thread_vars>>
    /\ Track

\* a variant of CancelFinds that finds the request in any partition
CancelFinds_Anywhere(request_id) ==
    request_id \in pending_requests \cup approved_requests \cup rejected_requests

\* cancel_request line 228: if request_id in self.pending_requests
CancelFinds(request_id) == request_id \in pending_requests

\* ApprovalGate.cancel_request
cancel_request(request_id) ==
    /\ UNCHANGED coordinator_vars
    /\ UNCHANGED later_vars
    /\ call' = [op |-> "cancel_request", request_id |-> request_id]
    /\ fired' = <<>>
    /\ IF CancelFinds(request_id)
       THEN /\ pending_requests' = pending_requests \ {request_id}
            /\ callbacks' = DropCallback(request_id)
            /\ ret' = TRUE
            /\ requests' = StoreOf(requests, pending_requests'
                              \cup approved_requests \cup rejected_requests)
            /\ UNCHANGED <<approved_requests, rejected_requests, uuids_issued>>
       ELSE /\ ret' = FALSE
            /\ UNCHANGED gate_vars
    /\ exc' = None
    /\ UNCHANGED <<now, workflow_configs, invoked, thread_vars>>
    /\ Track

Cutoff_DayEarly(days) == now - days + 1

\* clear_old_requests line 269: cutoff = utcnow - days, on the clock's scale
Cutoff(days) == now - days

\* clear_old_requests lines 273-277 and 283-287: the keys of one partition
\* whose request was reviewed before the cutoff
ToRemove(partition, days) ==
    {i \in partition : /\ requests[i].reviewed_at # NoTime
                       /\ requests[i].reviewed_at < Cutoff(days)}

\* a variant of clear_old_requests that also reaps the pending requests
\* created before the cutoff
clear_old_requests_ReapingPending(days) ==
    LET aged == {i \in pending_requests : requests[i].created_at < Cutoff(days)} IN
    /\ UNCHANGED coordinator_vars
    /\ UNCHANGED later_vars
    /\ call' = [op |-> "clear_old_requests", days |-> days]
    /\ fired' = <<>>
    /\ pending_requests' = pending_requests \ aged
    /\ approved_requests' = approved_requests \ ToRemove(approved_requests, days)
    /\ rejected_requests' = rejected_requests \ ToRemove(rejected_requests, days)
    /\ ret' = Cardinality(ToRemove(approved_requests, days))
              + Cardinality(ToRemove(rejected_requests, days))
    /\ requests' = StoreOf(requests, pending_requests'
                      \cup approved_requests' \cup rejected_requests')
    /\ UNCHANGED <<callbacks, uuids_issued>>
    /\ exc' = None
    /\ UNCHANGED <<now, workflow_configs, invoked, thread_vars>>
    /\ Track

\* ApprovalGate.clear_old_requests
clear_old_requests(days) ==
    /\ UNCHANGED coordinator_vars
    /\ UNCHANGED later_vars
    /\ call' = [op |-> "clear_old_requests", days |-> days]
    /\ fired' = <<>>
    /\ approved_requests' = approved_requests \ ToRemove(approved_requests, days)
    /\ rejected_requests' = rejected_requests \ ToRemove(rejected_requests, days)
    /\ ret' = Cardinality(ToRemove(approved_requests, days))
              + Cardinality(ToRemove(rejected_requests, days))
    /\ requests' = StoreOf(requests, pending_requests
                      \cup approved_requests' \cup rejected_requests')
    /\ UNCHANGED <<pending_requests, callbacks, uuids_issued>>
    /\ exc' = None
    /\ UNCHANGED <<now, workflow_configs, invoked, thread_vars>>
    /\ Track

\* time passes between two operations
Tick ==
    /\ UNCHANGED coordinator_vars
    /\ UNCHANGED later_vars
    /\ now < MaxTime
    /\ now' = now + 1
    /\ call' = [op |-> "tick"]
    /\ ret' = None
    /\ fired' = <<>>
    /\ exc' = None
    /\ UNCHANGED <<gate_vars, workflow_configs, invoked, seen_in, thread_vars>>

\* ------------------------------------------------------ workflow manager
\* the config stored by register_workflow (lines 40-45); an omitted condition
\* set (None) is stored as the empty dict (auto_approve_conditions or {}), so
\* the empty dict stands for both
WorkflowConfig(name, action, requires_approval, auto_approve_conditions) ==
    [name |-> name, action |-> action,
     requires_approval |-> requires_approval,
     auto_approve_conditions |-> auto_approve_conditions]

\* WorkflowManager.register_workflow
register_workflow(workflow_id, name, action, requires_approval, auto_approve_conditions) ==
    /\ UNCHANGED coordinator_vars
    /\ UNCHANGED later_vars
    /\ workflow_configs' = DictSet(workflow_configs, workflow_id,
           WorkflowConfig(name, action, requires_approval, auto_approve_conditions))
    /\ call' = [op |-> "register_workflow"]
    /\ ret' = None
    /\ fired' = <<>>
    /\ exc' = None
    /\ UNCHANGED <<gate_vars, now, invoked, seen_in, thread_vars>>

\* a variant of _check_auto_approve that never looks at the payload
_check_auto_approve_IgnoringData(conditions, data) ==
    conditions # EmptyDict

\* a variant of _check_auto_approve without the test for an empty condition set
_check_auto_approve_EmptyApproves(conditions, data) ==
    \A key \in DOMAIN conditions :
        ~(key \notin DOMAIN data \/ ~PyEq(data[key], conditions[key]))

\* WorkflowManager._check_auto_approve
_check_auto_approve(conditions, data) ==
    IF conditions = EmptyDict
    THEN FALSE
    ELSE \A key \in DOMAIN conditions :
            ~(key \notin DOMAIN data \/ ~PyEq(data[key], conditions[key]))

\* WorkflowManager._generate_description: the pieces of the f-string
_generate_description(workflow_id, data) ==
    IF workflow_id = "send_email"
    THEN <<"Send email to ", DictGet(data, "to", "recipient"), ": ",
           DictGet(data, "subject", "No subject")>>
    ELSE IF workflow_id = "apply_to_job"
    THEN <<"Apply to ", DictGet(data, "job_title", "job"), " at ",
           DictGet(data, "company", "company")>>
    ELSE IF workflow_id = "send_outreach"
    THEN <<"Send outreach message to ", DictGet(data, "contact_name", "contact")>>
    ELSE <<"Execute ", workflow_id, " workflow">>

\* a variant of RunNow that reports success without calling the callback
RunNow_Skipping(callback, data, flags) ==
    /\ fired' = <<>>
    /\ ret' = flags

\* a variant of RunNow that reports success whatever the callback does
RunNow_IgnoringFailure(callback, data, flags) ==
    /\ fired' = IF callback # None THEN <<Invocation(callback, data)>> ELSE <<>>
    /\ ret' = flags

\* execute_workflow lines 76-82 and 86-92: run the callback now; `flags` are
\* the keys the success result carries
RunNow(callback, data, flags) ==
    IF callback # None
    THEN /\ fired' = <<Invocation(callback, data)>>
         /\ ret' = IF Raises(callback)
                   THEN [success |-> FALSE, error |-> <<"str(e) of ", callback>>]
                   ELSE flags
    ELSE /\ fired' = <<>>
         /\ ret' = flags

\* a variant of ExecutesImmediately that sends every workflow on to the
\* auto-approve check
ExecutesImmediately_Never(config) == FALSE

\* execute_workflow line 74: if not config["requires_approval"]
ExecutesImmediately(config) == ~config.requires_approval

\* a variant of UnknownWorkflow that reports the workflow as executed
UnknownWorkflow_Executed(workflow_id) == [success |-> TRUE, executed |-> TRUE]

\* execute_workflow lines 67-71: the result for an id that is not registered
UnknownWorkflow(workflow_id) ==
    [success |-> FALSE, error |-> <<"Unknown workflow: ", workflow_id>>]

\* WorkflowManager.execute_workflow
execute_workflow(workflow_id, user_id, data, callback) ==
    /\ UNCHANGED coordinator_vars
    /\ UNCHANGED later_vars
    /\ call' = [op |-> "execute_workflow"]
    /\ IF workflow_id \notin DOMAIN workflow_configs
       THEN /\ ret' = UnknownWorkflow(workflow_id)
            /\ fired' = <<>>
            /\ UNCHANGED gate_vars
       ELSE LET config == workflow_configs[workflow_id] IN
            IF ExecutesImmediately(config)
            THEN /\ RunNow(callback, data, [success |-> TRUE, executed |-> TRUE])
                 /\ UNCHANGED gate_vars
            ELSE IF _check_auto_approve(config.auto_approve_conditions, data)
            THEN /\ RunNow(callback, data, [success |-> TRUE, executed |-> TRUE,
                                            auto_approved |-> TRUE])
                 /\ UNCHANGED gate_vars
            ELSE /\ uuids_issued < MaxFiled
                 /\ CreateRequest(user_id, config.action, config.name,
                       _generate_description(workflow_id, data), data, callback)
                 /\ fired' = <<>>
                 /\ ret' = [success |-> TRUE, executed |-> FALSE,
                            approval_required |-> TRUE,
                            request_id |-> uuids_issued']
    /\ exc' = None
    /\ UNCHANGED <<now, workflow_configs, invoked, thread_vars>>
    /\ Track

\* every sequence of gate operations by one caller at a time, at one instant
\* of the clock
Next ==
    \/ \E u \in Owners, cb \in Callbacks \cup {None} :
         create_approval_request(u, DirectAction, DirectTitle,
                                 DirectDescription, EmptyDict, cb)
    \/ \E i \in AnyIds, u \in Reviewers, n \in Notes, e \in BOOLEAN :
         approve_request(i, u, n, e)
    \/ \E i \in AnyIds, u \in Reviewers, n \in Notes :
         reject_request(i, u, n)
    \/ \E i \in AnyIds : cancel_request(i)
    \/ \E days \in DaysChoices : clear_old_requests(days)

Spec == Init /\ [][Next]_vars

\* a caller asks the gate for its pending requests
list_pending_requests(user_id) ==
    /\ UNCHANGED coordinator_vars
    /\ UNCHANGED later_vars
    /\ call' = [op |-> "get_pending_requests", user_id |-> user_id]
    /\ ret' = get_pending_requests(user_id)
    /\ fired' = <<>>
    /\ exc' = None
    /\ UNCHANGED gate_vars
    /\ UNCHANGED <<now, workflow_configs, invoked, thread_vars>>
    /\ Track

\* a caller asks the gate for one user's requests
list_user_requests(user_id) ==
    /\ UNCHANGED coordinator_vars
    /\ UNCHANGED later_vars
    /\ call' = [op |-> "get_user_requests", user_id |-> user_id]
    /\ ret' = get_user_requests(user_id)
    /\ fired' = <<>>
    /\ exc' = None
    /\ UNCHANGED gate_vars
    /\ UNCHANGED <<now, workflow_configs, invoked, thread_vars>>
    /\ Track

\* the same, with time passing between the operations
NextClock == Next \/ Tick

SpecClock == Init /\ [][NextClock]_vars

\* requests filed and decided on different days, and purges between them
NextPurge ==
    \/ \E u \in Owners :
         create_approval_request(u, DirectAction, DirectTitle,
                                 DirectDescription, EmptyDict, None)
    \/ \E i \in RequestIds, u \in Reviewers, n \in Notes :
         approve_request(i, u, n, FALSE)
    \/ \E i \in RequestIds, u \in Reviewers, n \in Notes :
         reject_request(i, u, n)
    \/ \E days \in DaysChoices : clear_old_requests(days)
    \/ Tick

SpecPurge == Init /\ [][NextPurge]_vars

\* requests of several owners, decided and listed; the ids a caller may ask
\* about include one that owns nothing and the empty string
RequestOwners == {"user1", "user2"}
AskedOwners == RequestOwners \cup {"user3", ""}

NextQueries ==
    \/ \E u \in RequestOwners :
         create_approval_request(u, DirectAction, DirectTitle,
                                 DirectDescription, EmptyDict, None)
    \/ \E i \in RequestIds, u \in Reviewers, n \in Notes :
         approve_request(i, u, n, FALSE)
    \/ \E i \in RequestIds, u \in Reviewers, n \in Notes :
         reject_request(i, u, n)
    \/ \E u \in AskedOwners \cup {None} : list_pending_requests(u)
    \/ \E u \in AskedOwners : list_user_requests(u)

SpecQueries == Init /\ [][NextQueries]_vars

\* every sequence of manager operations and of reviewers' decisions on the
\* requests the manager files
NextManager ==
    \/ \E w \in WorkflowIds, ra \in BOOLEAN, c \in ConditionSets :
         register_workflow(w, WorkflowName(w), WorkflowAction(w), ra, c)
    \/ \E w \in ExecutedIds, u \in Owners, d \in Payloads,
          cb \in Callbacks \cup {None} :
         execute_workflow(w, u, d, cb)
    \/ \E i \in RequestIds, u \in Reviewers, n \in Notes :
         approve_request(i, u, n, TRUE)
    \/ \E i \in RequestIds, u \in Reviewers, n \in Notes :
         reject_request(i, u, n)
    \/ \E i \in RequestIds : cancel_request(i)

SpecManager == Init /\ [][NextManager]_vars

\* the manager and the gate together over passing days: workflows filed
\* through the manager, requests filed directly, decisions, cancellations
\* and purges
NextAging ==
    \/ \E w \in WorkflowIds :
         register_workflow(w, WorkflowName(w), WorkflowAction(w), TRUE, EmptyDict)
    \/ \E w \in WorkflowIds, u \in Owners :
         execute_workflow(w, u, AmountIs(0), None)
    \/ \E i \in RequestIds : cancel_request(i)
    \/ NextPurge

SpecAging == Init /\ [][NextAging]_vars

\* ------------------------------------------------ _check_auto_approve alone
\* keys and values of the dicts handed to _check_auto_approve
DictKeys == {"amount", "kind"}
DictValues == {PyInt(0), PyInt(1), PyBool(FALSE), PyStr("auto")}
\* every dict over some of the keys
Dicts == UNION {[ks -> DictValues] : ks \in SUBSET DictKeys}

\* a manager about to be asked about one condition set and one payload
InitCheck ==
    /\ requests = EmptyDict
    /\ pending_requests = {}
    /\ approved_requests = {}
    /\ rejected_requests = {}
    /\ callbacks = EmptyDict
    /\ uuids_issued = 0
    /\ now = 0
    /\ workflow_configs = EmptyDict
    /\ call \in {[op |-> "argument", conditions |-> c, data |-> d] :
                    c \in Dicts, d \in Dicts}
    /\ ret = None
    /\ exc = None
    /\ fired = <<>>
    /\ invoked = [i \in RequestIds |-> 0]
    /\ seen_in = [i \in RequestIds |-> {}]
    /\ threads = [t \in Threads |-> Idle]
    /\ decided = [i \in RequestIds |-> 0]
    /\ agents = EmptyDict
    /\ registered = EmptyDict
    /\ execution_history = <<>>
    /\ co = NoRun
    /\ executing = {}
    /\ current_state = NoState
    /\ state_history = <<>>
    /\ context = EmptyDict
    /\ transitions_made = 0
    /\ error_handler = NoAgent
    /\ executes = <<>>
    /\ loop = NoLoop
    /\ limiter = NoLimiter
    /\ clock = 0
    /\ wrapper = [t \in Threads |-> NoCall]
    /\ invocations = <<>>

\* self._check_auto_approve(conditions, data)
check_auto_approve ==
    /\ UNCHANGED coordinator_vars
    /\ UNCHANGED later_vars
    /\ call.op = "argument"
    /\ call' = [call EXCEPT !.op = "_check_auto_approve"]
    /\ ret' = _check_auto_approve(call.conditions, call.data)
    /\ UNCHANGED <<gate_vars, now, workflow_configs, exc, fired, invoked,
                   seen_in, thread_vars>>

SpecCheck == InitCheck /\ [][check_auto_approve]_vars

\* ------------------------------------------- the gate under concurrent callers
\* The gate holds no lock (approval_gate.py has none, and _approval_gate is one
\* process-wide object), so threads calling it interleave between the
\* statements of its methods.  Each action below is one statement of one
\* method, or a run of statements whose outcome no other thread can change
\* (the writes to one request's fields; the test and deletion of a callback,
\* which only the one thread that removed the id from pending ever reaches);
\* pc names the source line the thread will execute next.  Objects stay in the store
\* here: a thread may hold a reference to a request no partition holds.

\* thread t moves to `pc`
Goto(t, pc) == threads' = [threads EXCEPT ![t].pc = pc]
\* thread t returns `value`
Return(t, value) == threads' = [threads EXCEPT ![t].pc = "done", ![t].ret = value]
\* thread t leaves the method with an exception
Raise(t, what) == threads' = [threads EXCEPT ![t].pc = "done", ![t].exc = what]
\* thread t's approve/reject/cancel returns True for request i
Succeed(t, i) ==
    /\ Return(t, TRUE)
    /\ decided' = [decided EXCEPT ![i] = @ + 1]

\* a thread enters a method of the gate
ThreadCall(t, op, request_id, callback, execute_callback) ==
    /\ UNCHANGED coordinator_vars
    /\ UNCHANGED later_vars
    /\ threads[t].pc = "idle"
    /\ threads' = [threads EXCEPT ![t] =
           [pc |-> op, op |-> op, request_id |-> request_id,
            callback |-> callback, execute_callback |-> execute_callback,
            ret |-> FALSE, exc |-> None]]
    /\ UNCHANGED <<gate_vars, now, workflow_configs, caller_vars, invoked,
                   seen_in, decided>>

\* the caller takes the result; the thread is free for its next call
ThreadDone(t) ==
    /\ UNCHANGED coordinator_vars
    /\ UNCHANGED later_vars
    /\ threads[t].pc = "done"
    /\ threads' = [threads EXCEPT ![t] = Idle]
    /\ UNCHANGED <<gate_vars, now, workflow_configs, caller_vars, invoked,
                   seen_in, decided>>

\* create_approval_request lines 83-94: draw the id, build the request
create_83(t) ==
    /\ UNCHANGED coordinator_vars
    /\ UNCHANGED later_vars
    /\ threads[t].pc = "create_approval_request"
    /\ uuids_issued < MaxRequests
    /\ uuids_issued' = uuids_issued + 1
    /\ requests' = DictSet(requests, uuids_issued',
           NewRequest(uuids_issued', "user123", DirectAction, DirectTitle,
                      DirectDescription, EmptyDict))
    /\ threads' = [threads EXCEPT ![t].pc = "create_96",
                                  ![t].request_id = uuids_issued']
    /\ UNCHANGED <<pending_requests, approved_requests, rejected_requests,
                   callbacks, now, workflow_configs, caller_vars, invoked,
                   seen_in, decided>>

\* create_approval_request line 96: self.pending_requests[request_id] = request
create_96(t) ==
    /\ UNCHANGED coordinator_vars
    /\ UNCHANGED later_vars
    /\ threads[t].pc = "create_96"
    /\ pending_requests' = pending_requests \cup {threads[t].request_id}
    /\ Goto(t, "create_98")
    /\ UNCHANGED <<requests, approved_requests, rejected_requests, callbacks,
                   uuids_issued, now, workflow_configs, caller_vars, invoked,
                   decided>>
    /\ Track

\* create_approval_request lines 98-101: keep the callback, return the request
create_98(t) ==
    /\ UNCHANGED coordinator_vars
    /\ UNCHANGED later_vars
    /\ threads[t].pc = "create_98"
    /\ callbacks' = KeepCallback(threads[t].request_id, threads[t].callback)
    /\ Return(t, TRUE)
    /\ UNCHANGED <<requests, pending_requests, approved_requests,
                   rejected_requests, uuids_issued, now, workflow_configs,
                   caller_vars, invoked, seen_in, decided>>

\* approve_request lines 158-161 and reject_request lines 198-201:
\* request = self.pending_requests.get(request_id); if not request: return False
decide_get(t, op, next_pc) ==
    /\ UNCHANGED coordinator_vars
    /\ UNCHANGED later_vars
    /\ threads[t].pc = op
    /\ IF IsPending(threads[t].request_id)
       THEN Goto(t, next_pc)
       ELSE Return(t, FALSE)
    /\ UNCHANGED <<gate_vars, now, workflow_configs, caller_vars, invoked,
                   seen_in, decided>>

\* approve_request lines 164-167 and reject_request lines 204-207: the writes
\* to the request the thread fetched, wherever that object is by now
decide_write(t, pc, fields, next_pc) ==
    /\ UNCHANGED coordinator_vars
    /\ UNCHANGED later_vars
    /\ threads[t].pc = pc
    /\ requests' = [requests EXCEPT ![threads[t].request_id] = fields]
    /\ Goto(t, next_pc)
    /\ UNCHANGED <<pending_requests, approved_requests, rejected_requests,
                   callbacks, uuids_issued, now, workflow_configs, caller_vars,
                   invoked, seen_in, decided>>

\* approve_request line 170, reject_request line 210, cancel_request line 229:
\* del self.pending_requests[request_id], a KeyError when the key is gone
del_pending(t, pc, next_pc) ==
    /\ UNCHANGED coordinator_vars
    /\ UNCHANGED later_vars
    /\ threads[t].pc = pc
    /\ IF threads[t].request_id \in pending_requests
       THEN /\ pending_requests' = pending_requests \ {threads[t].request_id}
            /\ Goto(t, next_pc)
       ELSE /\ Raise(t, "KeyError")
            /\ UNCHANGED pending_requests
    /\ UNCHANGED <<requests, approved_requests, rejected_requests, callbacks,
                   uuids_issued, now, workflow_configs, caller_vars, invoked,
                   decided>>
    /\ Track

approve_158(t) == decide_get(t, "approve_request", "approve_164")

approve_164(t) ==
    decide_write(t, "approve_164",
        ApprovedFields(requests[threads[t].request_id], "reviewer1", "Looks good!"),
        "approve_170")

approve_170(t) == del_pending(t, "approve_170", "approve_171")

\* approve_request line 171: self.approved_requests[request_id] = request
approve_171(t) ==
    /\ UNCHANGED coordinator_vars
    /\ UNCHANGED later_vars
    /\ threads[t].pc = "approve_171"
    /\ approved_requests' = approved_requests \cup {threads[t].request_id}
    /\ Goto(t, "approve_174")
    /\ UNCHANGED <<requests, pending_requests, rejected_requests, callbacks,
                   uuids_issued, now, workflow_configs, caller_vars, invoked,
                   decided>>
    /\ Track

\* approve_request lines 174-180: run the stored callback inside try/except,
\* return True
approve_174(t) ==
    /\ UNCHANGED coordinator_vars
    /\ UNCHANGED later_vars
    /\ threads[t].pc = "approve_174"
    /\ IF RunsCallback(threads[t].request_id, threads[t].execute_callback)
       THEN invoked' = [invoked EXCEPT ![threads[t].request_id] = @ + 1]
       ELSE UNCHANGED invoked
    /\ Succeed(t, threads[t].request_id)
    /\ UNCHANGED <<gate_vars, now, workflow_configs, caller_vars, seen_in>>

reject_198(t) == decide_get(t, "reject_request", "reject_204")

reject_204(t) ==
    decide_write(t, "reject_204",
        RejectedFields(requests[threads[t].request_id], "reviewer1", "Looks good!"),
        "reject_210")

reject_210(t) == del_pending(t, "reject_210", "reject_211")

\* reject_request line 211: self.rejected_requests[request_id] = request
reject_211(t) ==
    /\ UNCHANGED coordinator_vars
    /\ UNCHANGED later_vars
    /\ threads[t].pc = "reject_211"
    /\ rejected_requests' = rejected_requests \cup {threads[t].request_id}
    /\ Goto(t, "drop_callback")
    /\ UNCHANGED <<requests, pending_requests, approved_requests, callbacks,
                   uuids_issued, now, workflow_configs, caller_vars, invoked,
                   decided>>
    /\ Track

\* cancel_request line 228: if request_id in self.pending_requests
cancel_228(t) ==
    /\ UNCHANGED coordinator_vars
    /\ UNCHANGED later_vars
    /\ threads[t].pc = "cancel_request"
    /\ IF CancelFinds(threads[t].request_id)
       THEN Goto(t, "cancel_229")
       ELSE Return(t, FALSE)
    /\ UNCHANGED <<gate_vars, now, workflow_configs, caller_vars, invoked,
                   seen_in, decided>>

cancel_229(t) == del_pending(t, "cancel_229", "drop_callback")

\* reject_request lines 214-217 and cancel_request lines 232-235: delete the
\* callback if there is one, return True
drop_callback(t) ==
    /\ UNCHANGED coordinator_vars
    /\ UNCHANGED later_vars
    /\ threads[t].pc = "drop_callback"
    /\ callbacks' = DropCallback(threads[t].request_id)
    /\ Succeed(t, threads[t].request_id)
    /\ UNCHANGED <<requests, pending_requests, approved_requests,
                   rejected_requests, uuids_issued, now, workflow_configs,
                   caller_vars, invoked, seen_in>>

\* threads calling create, approve, reject and cancel on one gate
NextThreads ==
    \/ \E t \in Threads, cb \in {"cb_ok", None} :
         ThreadCall(t, "create_approval_request", 0, cb, FALSE)
    \/ \E t \in Threads, i \in RequestIds, e \in BOOLEAN :
         ThreadCall(t, "approve_request", i, None, e)
    \/ \E t \in Threads, i \in RequestIds :
         ThreadCall(t, "reject_request", i, None, FALSE)
    \/ \E t \in Threads, i \in RequestIds :
         ThreadCall(t, "cancel_request", i, None, FALSE)
    \/ \E t \in Threads : ThreadDone(t)
    \/ \E t \in Threads : create_83(t)
    \/ \E t \in Threads : create_96(t)
    \/ \E t \in Threads : create_98(t)
    \/ \E t \in Threads : approve_158(t)
    \/ \E t \in Threads : approve_164(t)
    \/ \E t \in Threads : approve_170(t)
    \/ \E t \in Threads : approve_171(t)
    \/ \E t \in Threads : approve_174(t)
    \/ \E t \in Threads : reject_198(t)
    \/ \E t \in Threads : reject_204(t)
    \/ \E t \in Threads : reject_210(t)
    \/ \E t \in Threads : reject_211(t)
    \/ \E t \in Threads : cancel_228(t)
    \/ \E t \in Threads : cancel_229(t)
    \/ \E t \in Threads : drop_callback(t)

SpecThreads == Init /\ [][NextThreads]_vars

\* ------------------------------------------------------- AgentCoordinator
\* An agent is its name and what its execute does.  The agents of this
\* repository build their result from their argument and leave the argument
\* as it was; the behaviours below do the same.
AgentNames == {"A", "B"}
\* names a workflow may list; "C" is never registered
WorkflowNames == AgentNames \cup {"C"}
Agent(name, behaviour) == [name |-> name, behaviour |-> behaviour]
AgentObjects == { Agent("A", "returns_x"), Agent("A", "returns_empty"),
                  Agent("B", "adds_y"), Agent("B", "raises") }
\* input_data handed to execute_workflow
WorkflowInputs == {EmptyDict, [k \in {"seed"} |-> PyInt(7)]}
\* every name list of at most MaxSteps entries
RECURSIVE NameLists(_)
NameLists(n) ==
    IF n = 0
    THEN {<<>>}
    ELSE NameLists(n - 1)
         \cup {Append(w, a) : w \in {v \in NameLists(n - 1) : Len(v) = n - 1},
                              a \in WorkflowNames}

\* agent.execute(input_data) returns a value
Returned(value) == [raised |-> FALSE, value |-> value]
\* agent.execute(input_data) raises an Exception whose str() is `message`
Raised(message) == [raised |-> TRUE, message |-> message]

\* await agent.execute(input_data): the outcome of the agent's behaviour
Execute(agent, input_data) ==
    IF agent.behaviour = "returns_x"
    THEN Returned([k \in {"x"} |-> PyInt(1)])
    ELSE IF agent.behaviour = "returns_empty"
    THEN Returned(EmptyDict)
    ELSE IF agent.behaviour = "adds_y"
    THEN Returned(DictSet(input_data, "y", PyInt(2)))
    ELSE Raised("boom")

\* a variant of OrEmptyDict that replaces an empty dict with a marked one
OrEmptyDict_Marking(value) ==
    IF DOMAIN value = {} THEN [k \in {"status"} |-> PyStr("empty")] ELSE value

\* Python's `value or {}` on a dict: an empty dict is falsy
OrEmptyDict(value) == IF DOMAIN value = {} THEN EmptyDict ELSE value

\* a variant of ErrorPayload that does not name the agent
ErrorPayload_WithoutAgent(message, agent_name) ==
    [k \in {"status", "error"} |->
        IF k = "status" THEN PyStr("error") ELSE PyStr(message)]

\* execute_workflow line 46: the payload that stands for a failed step
ErrorPayload(message, agent_name) ==
    [k \in {"status", "error", "agent"} |->
        IF k = "status" THEN PyStr("error")
        ELSE IF k = "error" THEN PyStr(message)
        ELSE PyStr(agent_name)]

\* a variant of SkippedResult that gives no reason
SkippedResult_NoReason == [k \in {"status"} |-> PyStr("skipped")]

\* execute_workflow line 65: the result recorded for a skipped step
SkippedResult ==
    [k \in {"status", "reason"} |->
        IF k = "status" THEN PyStr("skipped") ELSE PyStr("agent not registered")]

\* a variant of ExecutionRecord that does not say which name the step was for
ExecutionRecord_Anonymous(agent_name, status, result) ==
    [agent |-> "agent", status |-> status, started_at |-> now,
     finished_at |-> now, result |-> result]

\* execute_workflow lines 50-56 and 60-66: one entry of execution_history
ExecutionRecord(agent_name, status, result) ==
    [agent |-> agent_name, status |-> status, started_at |-> now,
     finished_at |-> now, result |-> result]

\* AgentCoordinator.get_agent: self.agents.get(name), None when absent
get_agent(name) == IF name \in DOMAIN agents THEN Just(agents[name]) ELSE Nothing

\* a variant of register_agent that keeps the agent a name already has
register_agent_KeepingFirst(agent) ==
    /\ UNCHANGED later_vars
    /\ agents' = IF agent.name \in DOMAIN agents
                 THEN agents
                 ELSE DictSet(agents, agent.name, agent)
    /\ registered' = DictSet(registered, agent.name, agent)
    /\ UNCHANGED <<execution_history, co>>
    /\ UNCHANGED <<gate_vars, now, workflow_configs, caller_vars, invoked,
                   seen_in, thread_vars>>

\* AgentCoordinator.register_agent
register_agent(agent) ==
    /\ UNCHANGED later_vars
    /\ agents' = DictSet(agents, agent.name, agent)
    /\ registered' = DictSet(registered, agent.name, agent)
    /\ UNCHANGED <<execution_history, co>>
    /\ UNCHANGED <<gate_vars, now, workflow_configs, caller_vars, invoked,
                   seen_in, thread_vars>>

\* AgentCoordinator.execute_workflow is called, line 37:
\* result = input_data or {}
co_execute_workflow(workflow, input_data) ==
    /\ UNCHANGED later_vars
    /\ co.pc \in {"idle", "returned"}
    /\ Len(execution_history) + Len(workflow) <= MaxHistory
    /\ co' = [pc |-> "loop", workflow |-> workflow, input_data |-> input_data,
              i |-> 1, result |-> OrEmptyDict(input_data), passed |-> <<>>,
              base |-> Len(execution_history), ret |-> EmptyDict]
    /\ UNCHANGED <<agents, registered, execution_history>>
    /\ UNCHANGED <<gate_vars, now, workflow_configs, caller_vars, invoked,
                   seen_in, thread_vars>>

\* a variant of StepResult that drops what the agent returned
StepResult_Discarding(outcome, agent_name) ==
    IF outcome.raised
    THEN ErrorPayload(outcome.message, agent_name)
    ELSE EmptyDict

\* execute_workflow lines 39-47: what a step on a registered name leaves as
\* the running payload
StepResult(outcome, agent_name) ==
    IF outcome.raised
    THEN ErrorPayload(outcome.message, agent_name)
    ELSE outcome.value

\* execute_workflow lines 44 and 47: the status of that step
StepStatus(outcome) == IF outcome.raised THEN "error" ELSE "success"

\* execute_workflow lines 38-67: one iteration of `for agent_name in workflow`
co_step ==
    /\ UNCHANGED later_vars
    /\ co.pc = "loop"
    /\ co.i <= Len(co.workflow)
    /\ LET agent_name == co.workflow[co.i] IN
       IF agent_name \in DOMAIN agents
       THEN LET outcome == Execute(agents[agent_name], co.result) IN
            /\ co' = [co EXCEPT !.i = @ + 1,
                                !.passed = <<co.result>>,
                                !.result = StepResult(outcome, agent_name)]
            /\ execution_history' = Append(execution_history,
                  ExecutionRecord(agent_name, StepStatus(outcome),
                                  StepResult(outcome, agent_name)))
       ELSE /\ co' = [co EXCEPT !.i = @ + 1, !.passed = <<>>]
            /\ execution_history' = Append(execution_history,
                  ExecutionRecord(agent_name, "skipped", SkippedResult))
    /\ UNCHANGED <<agents, registered>>
    /\ UNCHANGED <<gate_vars, now, workflow_configs, caller_vars, invoked,
                   seen_in, thread_vars>>

\* execute_workflow line 68: return result or {}
co_return ==
    /\ UNCHANGED later_vars
    /\ co.pc = "loop"
    /\ co.i > Len(co.workflow)
    /\ co' = [co EXCEPT !.pc = "returned", !.ret = OrEmptyDict(co.result)]
    /\ UNCHANGED <<agents, registered, execution_history>>
    /\ UNCHANGED <<gate_vars, now, workflow_configs, caller_vars, invoked,
                   seen_in, thread_vars>>

\* agents are registered and workflows run, one run at a time; a
\* registration may fall between two steps of a run, at its await
NextCoordinator ==
    \/ \E agent \in AgentObjects : register_agent(agent)
    \/ \E workflow \in NameLists(MaxSteps), input_data \in WorkflowInputs :
         co_execute_workflow(workflow, input_data)
    \/ co_step
    \/ co_return

SpecCoordinator == Init /\ [][NextCoordinator]_vars

\* ------------------------------------- execute_workflow, await by await
\* The same loop with the call of agent.execute and its completion as two
\* steps: between them the coroutine is suspended at the await of line 43.

\* a variant of AfterCall in which the loop goes on without awaiting the call
AfterCall_NotAwaited == "loop"

\* execute_workflow line 43: `await` suspends the loop until execute is over
AfterCall == "await"

\* execute_workflow lines 39-43: the name is registered, execute is called
co_call ==
    /\ co.pc = "loop"
    /\ co.i <= Len(co.workflow)
    /\ co.workflow[co.i] \in DOMAIN agents
    /\ executing' = executing \cup
          {[step |-> co.i, agent |-> agents[co.workflow[co.i]]]}
    /\ co' = [co EXCEPT !.pc = AfterCall, !.passed = <<co.result>>]
    /\ UNCHANGED <<agents, registered, execution_history>>
    /\ UNCHANGED <<gate_vars, now, workflow_configs, caller_vars, invoked,
                   seen_in, thread_vars, sm_vars, eh_vars, rl_vars>>

\* execute_workflow lines 43-57: execute returns or raises, the loop resumes
\* and appends the step's record
co_resume ==
    /\ co.pc = "await"
    /\ \E e \in executing :
          /\ e.step = co.i
          /\ LET agent_name == co.workflow[co.i]
                 outcome == Execute(e.agent, co.result) IN
             /\ co' = [co EXCEPT !.pc = "loop", !.i = @ + 1,
                                 !.result = StepResult(outcome, agent_name)]
             /\ execution_history' = Append(execution_history,
                   ExecutionRecord(agent_name, StepStatus(outcome),
                                   StepResult(outcome, agent_name)))
          /\ executing' = executing \ {e}
    /\ UNCHANGED <<agents, registered>>
    /\ UNCHANGED <<gate_vars, now, workflow_configs, caller_vars, invoked,
                   seen_in, thread_vars, sm_vars, eh_vars, rl_vars>>

\* execute_workflow lines 58-67: the name is not registered
co_skip ==
    /\ co.pc = "loop"
    /\ co.i <= Len(co.workflow)
    /\ co.workflow[co.i] \notin DOMAIN agents
    /\ co' = [co EXCEPT !.i = @ + 1, !.passed = <<>>]
    /\ execution_history' = Append(execution_history,
          ExecutionRecord(co.workflow[co.i], "skipped", SkippedResult))
    /\ UNCHANGED <<agents, registered, executing>>
    /\ UNCHANGED <<gate_vars, now, workflow_configs, caller_vars, invoked,
                   seen_in, thread_vars, sm_vars, eh_vars, rl_vars>>

\* one run at a time, with registrations falling anywhere, also while an
\* agent's execute is under way
NextAwait ==
    \/ \E agent \in AgentObjects : register_agent(agent)
    \/ \E workflow \in NameLists(MaxSteps), input_data \in WorkflowInputs :
         co_execute_workflow(workflow, input_data)
    \/ co_call
    \/ co_resume
    \/ co_skip
    \/ co_return

SpecAwait == Init /\ [][NextAwait]_vars

\* ------------------------------------------------------------ StateMachine
INIT == "init"
PROFILE_PARSING == "profile_parsing"
JOB_SEARCH == "job_search"
JOB_RANKING == "job_ranking"
DOCUMENT_PREP == "document_prep"
CONTACT_DISCOVERY == "contact_discovery"
OUTREACH == "outreach"
APPLICATION == "application"
INTERVIEW == "interview"
OFFER == "offer"
COMPLETE == "complete"
ERROR == "error"
WorkflowState ==
    {INIT, PROFILE_PARSING, JOB_SEARCH, JOB_RANKING, DOCUMENT_PREP,
     CONTACT_DISCOVERY, OUTREACH, APPLICATION, INTERVIEW, OFFER, COMPLETE,
     ERROR}

\* a variant of the table in which nothing leads out of COMPLETE
_allowed_transitions_DeadEnd ==
    [state \in WorkflowState |-> IF state = COMPLETE THEN {} ELSE {COMPLETE, ERROR}]

\* StateMachine._allowed_transitions
_allowed_transitions ==
    [state \in WorkflowState |->
        CASE state = INIT -> {PROFILE_PARSING, JOB_SEARCH, ERROR}
          [] state = PROFILE_PARSING -> {JOB_SEARCH, ERROR}
          [] state = JOB_SEARCH -> {JOB_RANKING, ERROR}
          [] state = JOB_RANKING -> {DOCUMENT_PREP, ERROR}
          [] state = DOCUMENT_PREP -> {CONTACT_DISCOVERY, APPLICATION, ERROR}
          [] state = CONTACT_DISCOVERY -> {OUTREACH, ERROR}
          [] state = OUTREACH -> {APPLICATION, ERROR}
          [] state = APPLICATION -> {INTERVIEW, COMPLETE, ERROR}
          [] state = INTERVIEW -> {OFFER, COMPLETE, ERROR}
          [] state = OFFER -> {COMPLETE, ERROR}
          [] state = COMPLETE -> {INIT}
          [] state = ERROR -> {INIT}]

\* the context dicts handed to transition; the empty one also stands for None
ContextKeys == {"user", "job"}
Contexts ==
    {EmptyDict, [k \in {"user"} |-> PyInt(1)], [k \in ContextKeys |-> PyInt(2)]}

\* the targets handed to transition: every state, and a value that is none
Targets == WorkflowState \cup {"archived"}

\* StateMachine.__init__
StateMachine(initial_state) ==
    /\ current_state = NoState
    /\ current_state' = initial_state
    /\ state_history' = <<initial_state>>
    /\ context' = EmptyDict
    /\ transitions_made' = 0
    /\ call' = [op |-> "StateMachine"]
    /\ ret' = None
    /\ exc' = None
    /\ fired' = <<>>
    /\ UNCHANGED <<gate_vars, now, workflow_configs, invoked, seen_in,
                   thread_vars, coordinator_vars, executing, eh_vars, rl_vars>>

\* a variant of can_transition_to that allows every target
can_transition_to_Anything(target_state) == TRUE

\* StateMachine.can_transition_to
can_transition_to(target_state) ==
    LET allowed == IF current_state \in DOMAIN _allowed_transitions
                   THEN _allowed_transitions[current_state]
                   ELSE {} IN
    IF allowed = {} THEN FALSE ELSE target_state \in allowed

\* a variant of update that replaces the stored context
update_Replacing(stored, supplied) == supplied

\* transition lines 64-65: if context: self.context.update(context)
update(stored, supplied) ==
    IF DOMAIN supplied = {}
    THEN stored
    ELSE [k \in DOMAIN stored \cup DOMAIN supplied |->
             IF k \in DOMAIN supplied THEN supplied[k] ELSE stored[k]]

\* a variant of append that leaves the history as it was
append_Nothing(history, new_state) == history

\* transition line 63: self.state_history.append(new_state)
append(history, new_state) == Append(history, new_state)

\* StateMachine.transition
transition(new_state, supplied) ==
    /\ current_state # NoState
    /\ call' = [op |-> "transition", new_state |-> new_state,
                context |-> supplied]
    /\ IF ~can_transition_to(new_state)
       THEN /\ ret' = FALSE
            /\ UNCHANGED sm_vars
       ELSE /\ current_state' = new_state
            /\ state_history' = append(state_history, new_state)
            /\ context' = update(context, supplied)
            /\ transitions_made' = transitions_made + 1
            /\ ret' = TRUE
    /\ exc' = None
    /\ fired' = <<>>
    /\ UNCHANGED <<gate_vars, now, workflow_configs, invoked, seen_in,
                   thread_vars, coordinator_vars, executing, eh_vars, rl_vars>>

\* the caller has a successful transition left, or new_state will be refused
Within(limit, new_state) ==
    can_transition_to(new_state) => transitions_made < limit

\* a StateMachine built in any state and driven by its caller
NextStateMachine ==
    \/ \E initial_state \in WorkflowState : StateMachine(initial_state)
    \/ \E new_state \in Targets, supplied \in Contexts :
         Within(MaxTransitions, new_state) /\ transition(new_state, supplied)

SpecStateMachine == Init /\ [][NextStateMachine]_vars

\* how many successful transitions a machine built by default goes through
MaxLifecycle == 8

\* a StateMachine built with the default initial state, INIT, and driven
\* through restarts by its caller
NextLifecycle ==
    \/ StateMachine(INIT)
    \/ \E new_state \in Targets :
         Within(MaxLifecycle, new_state) /\ transition(new_state, EmptyDict)

SpecLifecycle == Init /\ [][NextLifecycle]_vars

(***************************************************************************)
(* Part 6: the ErrorHandlerAgent (agents/error_handler_agent.py)           *)
(***************************************************************************)

\* how many calls of execute callers other than the retry loop make
MaxCalls == 1
\* the largest retry_count a caller hands in of its own accord
MaxRetryCount == 3
\* a configured max_retries large enough for the history to overflow
LongRun == 21

\* Python values that are not modelled elsewhere; a str is a sequence of
\* one-character strings so that lower() and `in` are computed
PyNone == [t |-> "none"]
PyDict(d) == [t |-> "dict", d |-> d]
PyText(chars) == [t |-> "str", s |-> chars]

\* Python truthiness of a value
Truthy(value) ==
    CASE value.t = "none" -> FALSE
      [] value.t = "str" -> Len(value.s) > 0
      [] value.t = "int" -> value.v # 0
      [] value.t = "dict" -> DOMAIN value.d # {}

\* Python `a or b`
Or(a, b) == IF Truthy(a) THEN a ELSE b

\* dict.get(key): None when the key is absent
Get(d, key) == IF key \in DOMAIN d THEN d[key] ELSE PyNone

\* str(value) of a str or of None
str(value) == IF value.t = "str" THEN value.s ELSE <<"N", "o", "n", "e">>

\* int(value) of an int
int(value) == value.v

UpperCase == <<"A", "B", "C", "D", "E", "F", "G", "H", "I", "J", "K", "L", "M", "N", "O", "P", "Q", "R", "S", "T", "U", "V", "W", "X", "Y", "Z">>
LowerCase == <<"a", "b", "c", "d", "e", "f", "g", "h", "i", "j", "k", "l", "m", "n", "o", "p", "q", "r", "s", "t", "u", "v", "w", "x", "y", "z">>

\* str.lower()
lower(chars) ==
    [n \in 1..Len(chars) |->
        IF \E m \in 1..Len(UpperCase) : UpperCase[m] = chars[n]
        THEN LowerCase[CHOOSE m \in 1..Len(UpperCase) : UpperCase[m] = chars[n]]
        ELSE chars[n]]

\* `keyword in chars` for two strs
Contains(keyword, chars) ==
    \E n \in 0..(Len(chars) - Len(keyword)) :
        SubSeq(chars, n + 1, n + Len(keyword)) = keyword

\* execute lines 39-42: the vocabulary of transient messages
TransientKeywords == {<<"t", "i", "m", "e", "o", "u", "t">>,
                      <<"t", "e", "m", "p", "o", "r", "a", "r">>,
                      <<"r", "a", "t", "e", " ", "l", "i", "m", "i", "t">>,
                      <<"c", "o", "n", "n", "e", "c", "t", "i", "o", "n">>,
                      <<"q", "u", "o", "t", "a">>}
\* execute line 43: the transient codes
TransientCodes == {<<"t", "i", "m", "e", "o", "u", "t">>,
                   <<"r", "e", "t", "r", "y">>,
                   <<"t", "h", "r", "o", "t", "t", "l", "e", "d">>,
                   <<"r", "a", "t", "e", "_", "l", "i", "m", "i", "t">>}

\* the texts callers report
RateLimitText == <<"R", "a", "t", "e", " ", "L", "i", "m", "i", "t", " ", "h", "i", "t">>
DiskFullText == <<"d", "i", "s", "k", " ", "f", "u", "l", "l">>
ConnectionText == <<"C", "o", "n", "n", "e", "c", "t", "i", "o", "n", " ", "l", "o", "s", "t">>
TimeoutCodeText == <<"T", "I", "M", "E", "O", "U", "T">>
QuotaText == <<"q", "u", "o", "t", "a">>
ValueErrorText == <<"V", "a", "l", "u", "e", "E", "r", "r", "o", "r">>

\* the errors a caller reports under "error" or "exception"
Errors ==
    { PyText(RateLimitText),
      PyText(DiskFullText),
      PyDict([k \in {"code"} |-> PyText(TimeoutCodeText)]),
      PyDict([k \in {"message", "code"} |->
                 IF k = "message" THEN PyText(DiskFullText) ELSE PyText(ValueErrorText)]),
      PyDict([k \in {"message", "detail", "type"} |->
                 IF k = "message" THEN PyNone
                 ELSE IF k = "detail" THEN PyText(ConnectionText)
                 ELSE PyText(ValueErrorText)]) }

\* the retry counts a caller hands in: none, None, or a number
RetryCounts == {PyNone} \cup {PyInt(n) : n \in 0..MaxRetryCount}

\* the payloads handed to execute
ErrorInputs ==
    {EmptyDict}
    \cup {[k \in {"retry_count"} |-> PyInt(2)]}
    \cup {[k \in {"error"} |-> e] : e \in Errors}
    \cup {[k \in {"error", "retry_count"} |->
              IF k = "error" THEN PyText(RateLimitText) ELSE c] : c \in RetryCounts}
    \cup {[k \in {"error", "exception", "retry_count"} |->
              IF k = "error" THEN PyNone
              ELSE IF k = "exception" THEN PyText(QuotaText)
              ELSE PyInt(1)]}
    \cup {[k \in {"error"} |-> PyText(<<>>)]}
    \cup {[k \in {"message"} |-> PyText(ConnectionText)]}

\* the configurations an ErrorHandlerAgent is made with
Configs ==
    { EmptyDict,
      [k \in {"max_retries"} |-> PyInt(0)],
      [k \in {"max_retries", "backoff_factor", "base_delay_seconds"} |->
          IF k = "max_retries" THEN PyInt(1)
          ELSE IF k = "backoff_factor" THEN PyInt(1) ELSE PyInt(3)],
      [k \in {"max_retries", "base_delay_seconds"} |->
          IF k = "max_retries" THEN PyInt(LongRun) ELSE PyInt(3)] }

\* execute line 22
error_info(input_data) ==
    Or(Or(Get(input_data, "error"), Get(input_data, "exception")), PyDict(input_data))

\* execute line 23
max_retries(config) == int(DictGet(config, "max_retries", PyInt(3)))
\* execute line 24
backoff_factor(config) == int(DictGet(config, "backoff_factor", PyInt(2)))
\* execute line 25
base_delay(config) == int(DictGet(config, "base_delay_seconds", PyInt(1)))
\* execute line 26
retry_count(input_data) == int(Or(Get(input_data, "retry_count"), PyInt(0)))

\* execute lines 28-34
message(info) ==
    IF info.t = "dict"
    THEN str(Or(Or(Get(info.d, "message"), Get(info.d, "detail")), PyText(<<>>)))
    ELSE IF Truthy(info) THEN str(info) ELSE <<>>

\* execute lines 29-32
code(info) ==
    IF info.t = "dict"
    THEN lower(str(Or(Or(Get(info.d, "code"), Get(info.d, "type")), PyText(<<>>))))
    ELSE <<>>

\* execute lines 36-44
is_transient(msg, cd) ==
    \/ /\ Len(msg) > 0
       /\ \E keyword \in TransientKeywords : Contains(keyword, lower(msg))
    \/ cd \in TransientCodes

\* a variant of should_retry that allows one retry more
should_retry_Inclusive(transient, count, limit) == transient /\ count <= limit

\* execute line 46
should_retry(transient, count, limit) == transient /\ count < limit

\* execute line 47
next_retry(retry, count) == IF retry THEN count + 1 ELSE count

\* backoff_factor ** retry_count
RECURSIVE Pow(_, _)
Pow(base, exponent) == IF exponent = 0 THEN 1 ELSE base * Pow(base, exponent - 1)

\* a variant of delay_seconds that grows linearly
delay_seconds_Linear(retry, base, factor, count) ==
    IF retry THEN base * factor * count ELSE 0

\* execute line 48
delay_seconds(retry, base, factor, count) ==
    IF retry THEN base * Pow(factor, count) ELSE 0

\* execute lines 51-56
error_record(msg, cd, count, transient) ==
    [message |-> msg, code |-> cd, retry_count |-> count, transient |-> transient]

\* a variant of Last20 that keeps the oldest records
Last20_Oldest(errors) ==
    IF Len(errors) <= 20 THEN errors ELSE SubSeq(errors, 1, 20)

\* execute line 58: errors[-20:]
Last20(errors) ==
    IF Len(errors) <= 20 THEN errors ELSE SubSeq(errors, Len(errors) - 19, Len(errors))

\* execute lines 50-59: the agent's state after the call
StateAfter(state, record) ==
    LET errors == Append(DictGet(state, "errors", <<>>), record) IN
    [k \in DOMAIN state \cup {"errors", "last_error"} |->
        IF k = "errors" THEN Last20(errors)
        ELSE IF k = "last_error" THEN record
        ELSE state[k]]

\* execute lines 61-79: the value returned
Result(info, retry, next, delay, count, transient) ==
    IF retry
    THEN [status |-> "retry",
          recovery |-> [action |-> "retry", retry_count |-> next,
                        delay_seconds |-> delay, transient |-> TRUE]]
    ELSE [status |-> IF Truthy(info) THEN "failed" ELSE "success",
          recovery |-> [action |-> IF Truthy(info) THEN "halt" ELSE "noop",
                        retry_count |-> count, transient |-> transient]]

\* execute lines 22-79: the record kept and the value returned
Outcome(config, input_data) ==
    LET info == error_info(input_data)
        limit == max_retries(config)
        factor == backoff_factor(config)
        base == base_delay(config)
        count == retry_count(input_data)
        msg == message(info)
        cd == code(info)
        transient == is_transient(msg, cd)
        retry == should_retry(transient, count, limit)
        next == next_retry(retry, count)
        delay == delay_seconds(retry, base, factor, count) IN
    [record |-> error_record(msg, cd, count, transient),
     result |-> Result(info, retry, next, delay, count, transient)]

\* the errors a retry loop is started with
LoopErrors ==
    { PyText(RateLimitText),
      PyText(DiskFullText),
      PyDict([k \in {"code"} |-> PyText(TimeoutCodeText)]) }

\* the payloads a retry loop submits
LoopInputs ==
    {[k \in {"error", "retry_count"} |-> IF k = "error" THEN error ELSE PyInt(n)] :
        error \in LoopErrors, n \in 0..(LongRun + 1)}

\* execute reads nothing but the configuration and the payload: its outcome
\* for each of them, computed once
Outcomes ==
    [config \in Configs, input_data \in ErrorInputs \cup LoopInputs |->
        Outcome(config, input_data)]

\* everything this part leaves alone
eh_others == <<gate_vars, now, workflow_configs, invoked, seen_in, thread_vars, coordinator_vars, executing, sm_vars, rl_vars>>

\* ErrorHandlerAgent.__init__ and BaseAgent.__init__
ErrorHandlerAgent(config) ==
    /\ ~error_handler.made
    /\ error_handler' = [made |-> TRUE, config |-> OrEmptyDict(config), state |-> EmptyDict]
    /\ call' = [op |-> "ErrorHandlerAgent"]
    /\ ret' = None
    /\ exc' = None
    /\ fired' = <<>>
    /\ UNCHANGED <<executes, loop>>
    /\ UNCHANGED eh_others

\* ErrorHandlerAgent.execute, lines 13-79, whoever calls it
Handle(input_data) ==
    LET outcome == Outcomes[error_handler.config, input_data] IN
    /\ error_handler.made
    /\ error_handler' = [error_handler EXCEPT !.state = StateAfter(@, outcome.record)]
    /\ executes' = Append(executes, outcome.record)
    /\ call' = [op |-> "execute", input_data |-> input_data]
    /\ ret' = outcome.result
    /\ exc' = None
    /\ fired' = <<>>
    /\ UNCHANGED eh_others

\* how many calls of execute came from outside the retry loop
FreeCalls == Len(executes) - (IF loop.pc = "idle" THEN 0 ELSE Len(loop.results))

\* a caller other than the retry loop calls execute
execute(input_data) ==
    /\ loop.pc # "running"
    /\ FreeCalls < MaxCalls
    /\ Handle(input_data)
    /\ UNCHANGED loop

\* a caller starts a retry loop on an error, with retry_count 0
retry_loop(error) ==
    /\ error_handler.made
    /\ loop.pc = "idle"
    /\ loop' = [pc |-> "running", error |-> error, retry_count |-> 0, results |-> <<>>]
    /\ UNCHANGED <<error_handler, executes, caller_vars>>
    /\ UNCHANGED eh_others

\* one turn of the retry loop: submit the error with the count last returned
retry_loop_step ==
    /\ loop.pc = "running"
    /\ Handle([k \in {"error", "retry_count"} |->
                  IF k = "error" THEN loop.error ELSE PyInt(loop.retry_count)])
    /\ loop' = [loop EXCEPT
                  !.pc = IF ret'.status = "retry" THEN "running" ELSE "done",
                  !.retry_count = ret'.recovery.retry_count,
                  !.results = Append(@, ret'.status)]

NextErrorHandler ==
    \/ \E config \in Configs : ErrorHandlerAgent(config)
    \/ \E input_data \in ErrorInputs : execute(input_data)
    \/ \E error \in LoopErrors : retry_loop(error)
    \/ retry_loop_step

SpecErrorHandler == Init /\ [][NextErrorHandler]_vars

\* the caller's loop keeps running: execute never blocks
SpecRetryLoop == Init /\ [][NextErrorHandler]_vars /\ WF_vars(retry_loop_step)


(***************************************************************************)
(* Part 7: the RateLimiter (tools/rate_limiter.py)                         *)
(***************************************************************************)

\* last instant of the clock behind time.time()
MaxClock == 3
\* how many times the wrapped function is called
MaxInvocations == 3

\* the limits and the windows a RateLimiter is made with
Capacities == {0, 1, 2}
Windows == {1, 2}

\* the one caller of a sequential program
MainThread == 1

\* everything this part leaves alone
rl_others == <<gate_vars, now, workflow_configs, invoked, seen_in, thread_vars, coordinator_vars, executing, sm_vars, eh_vars>>

\* RateLimiter.__init__
RateLimiter(max_calls, time_window) ==
    /\ ~limiter.made
    /\ limiter' = [made |-> TRUE, max_calls |-> max_calls,
                   time_window |-> time_window, calls |-> <<>>]
    /\ call' = [op |-> "RateLimiter"]
    /\ ret' = None
    /\ exc' = None
    /\ fired' = <<>>
    /\ UNCHANGED <<clock, wrapper, invocations>>
    /\ UNCHANGED rl_others

\* time passes
rl_tick ==
    /\ limiter.made
    /\ clock < MaxClock
    /\ clock' = clock + 1
    /\ UNCHANGED <<limiter, wrapper, invocations, caller_vars>>
    /\ UNCHANGED rl_others

\* how many calls of the wrapped function are under way
InFlight == Cardinality({t \in Threads : wrapper[t].pc # "idle"})

\* wrapper line 33: now = time.time()
wrapper_now(t) ==
    /\ limiter.made
    /\ wrapper[t].pc = "idle"
    /\ Len(invocations) + InFlight < MaxInvocations
    /\ wrapper' = [wrapper EXCEPT ![t] = [pc |-> "prune", now |-> clock]]
    /\ call' = [op |-> "wrapper", by |-> t]
    /\ ret' = None
    /\ exc' = None
    /\ fired' = <<>>
    /\ UNCHANGED <<limiter, clock, invocations>>
    /\ UNCHANGED rl_others

\* wrapper line 34: the timestamps still inside the window
Prune(calls, now_read, time_window) ==
    SelectSeq(calls, LAMBDA c : c > now_read - time_window)

\* wrapper line 34
wrapper_prune(t) ==
    /\ wrapper[t].pc = "prune"
    /\ limiter' = [limiter EXCEPT
                     !.calls = Prune(@, wrapper[t].now, limiter.time_window)]
    /\ wrapper' = [wrapper EXCEPT ![t].pc = "check"]
    /\ UNCHANGED <<clock, invocations, caller_vars>>
    /\ UNCHANGED rl_others

\* a variant of sleep_time that never waits
sleep_time_None(time_window, now_read, oldest) == 0

\* wrapper line 37
sleep_time(time_window, now_read, oldest) == time_window - (now_read - oldest)

\* wrapper lines 36-39: at capacity the caller goes to sleep; self.calls[0]
\* of an empty list raises IndexError
wrapper_check(t) ==
    /\ wrapper[t].pc = "check"
    /\ IF Len(limiter.calls) >= limiter.max_calls
       THEN IF Len(limiter.calls) = 0
            THEN /\ wrapper' = [wrapper EXCEPT ![t] = NoCall]
                 /\ exc' = "IndexError"
            ELSE LET oldest == limiter.calls[1]
                     sleep == sleep_time(limiter.time_window, wrapper[t].now, oldest) IN
                 /\ wrapper' = [wrapper EXCEPT ![t] =
                       [pc |-> IF sleep > 0 THEN "sleep" ELSE "record",
                        now |-> wrapper[t].now, oldest |-> oldest,
                        slept |-> sleep > 0, wake |-> clock + sleep]]
                 /\ exc' = None
       ELSE /\ wrapper' = [wrapper EXCEPT ![t] =
                  [pc |-> "record", now |-> wrapper[t].now, oldest |-> NoTime,
                   slept |-> FALSE, wake |-> clock]]
            /\ exc' = None
    /\ UNCHANGED <<limiter, clock, invocations, call, ret, fired>>
    /\ UNCHANGED rl_others

\* wrapper line 39: time.sleep returns once the time asked for has passed
wrapper_wake(t) ==
    /\ wrapper[t].pc = "sleep"
    /\ clock >= wrapper[t].wake
    /\ wrapper' = [wrapper EXCEPT ![t].pc = "record"]
    /\ UNCHANGED <<limiter, clock, invocations, caller_vars>>
    /\ UNCHANGED rl_others

\* wrapper line 41: self.calls.append(time.time())
wrapper_record(t) ==
    /\ wrapper[t].pc = "record"
    /\ limiter' = [limiter EXCEPT !.calls = Append(@, clock)]
    /\ wrapper' = [wrapper EXCEPT ![t] =
          [pc |-> "invoke", now |-> wrapper[t].now, oldest |-> wrapper[t].oldest,
           slept |-> wrapper[t].slept, stamp |-> clock]]
    /\ UNCHANGED <<clock, invocations, caller_vars>>
    /\ UNCHANGED rl_others

\* wrapper line 42: return func(*args, **kwargs)
wrapper_invoke(t) ==
    /\ wrapper[t].pc = "invoke"
    /\ invocations' = Append(invocations,
          [by |-> t, arrived |-> wrapper[t].now, oldest |-> wrapper[t].oldest,
           slept |-> wrapper[t].slept, stamp |-> wrapper[t].stamp, at |-> clock])
    /\ wrapper' = [wrapper EXCEPT ![t] = NoCall]
    /\ ret' = "result"
    /\ UNCHANGED <<limiter, clock, call, exc, fired>>
    /\ UNCHANGED rl_others

\* one thread calls the wrapped function again and again
NextRateLimiter ==
    \/ \E max_calls \in Capacities, time_window \in Windows :
          RateLimiter(max_calls, time_window)
    \/ rl_tick
    \/ wrapper_now(MainThread)
    \/ wrapper_prune(MainThread)
    \/ wrapper_check(MainThread)
    \/ wrapper_wake(MainThread)
    \/ wrapper_record(MainThread)
    \/ wrapper_invoke(MainThread)

SpecRateLimiter == Init /\ [][NextRateLimiter]_vars

\* wrapper line 34, right-hand side: the list comprehension is evaluated
wrapper_filter(t) ==
    /\ wrapper[t].pc = "prune"
    /\ wrapper' = [wrapper EXCEPT ![t] =
          [pc |-> "assign", now |-> wrapper[t].now,
           kept |-> Prune(limiter.calls, wrapper[t].now, limiter.time_window)]]
    /\ UNCHANGED <<limiter, clock, invocations, caller_vars>>
    /\ UNCHANGED rl_others

\* wrapper line 34, left-hand side: self.calls is bound to the new list
wrapper_assign(t) ==
    /\ wrapper[t].pc = "assign"
    /\ limiter' = [limiter EXCEPT !.calls = wrapper[t].kept]
    /\ wrapper' = [wrapper EXCEPT ![t] = [pc |-> "check", now |-> wrapper[t].now]]
    /\ UNCHANGED <<clock, invocations, caller_vars>>
    /\ UNCHANGED rl_others

\* the threads of one process call the wrapped function; a thread switch can
\* come between any two statements, and inside line 34
NextRateLimiterThreads ==
    \/ \E max_calls \in Capacities, time_window \in Windows :
          RateLimiter(max_calls, time_window)
    \/ rl_tick
    \/ \E t \in Threads :
          \/ wrapper_now(t)
          \/ wrapper_filter(t)
          \/ wrapper_assign(t)
          \/ wrapper_check(t)
          \/ wrapper_wake(t)
          \/ wrapper_record(t)
          \/ wrapper_invoke(t)

SpecRateLimiterThreads == Init /\ [][NextRateLimiterThreads]_vars

\* ================================================================ claims
\* a request that left the pending partition without a decision: cancelled
Cancelled(i) == i <= uuids_issued /\ seen_in[i] = {PENDING} /\ i \notin pending_requests

\* C1: over any sequence of gate operations the callback stored for a request
\* is invoked at most once, and only inside the approve_request call that
\* moves that request from pending to approved with execute_callback true; it
\* has never run while the request is pending, nor once it was rejected or
\* cancelled.
C1_CallbackAtMostOnceOnApproval ==
    [][ /\ \A i \in RequestIds :
             invoked'[i] # invoked[i] =>
                /\ invoked[i] = 0
                /\ invoked'[i] = 1
                /\ i \in pending_requests
                /\ i \in approved_requests'
                /\ call'.op = "approve_request"
                /\ call'.request_id = i
                /\ call'.execute_callback
                /\ fired' = <<Invocation(callbacks[i], requests'[i])>>
        /\ fired' # <<>> => \E i \in RequestIds : invoked'[i] # invoked[i]
        /\ \A i \in RequestIds :
             (i \in pending_requests' \/ REJECTED \in seen_in'[i] \/ Cancelled(i)')
                => invoked'[i] = 0
      ]_vars

\* C1 witness: a second approve_request, asking for the callback, on a request
\* whose callback already ran
C1_Witness ==
    /\ call.op = "approve_request"
    /\ call.request_id \in RequestIds
    /\ call.execute_callback
    /\ invoked[call.request_id] = 1
    /\ ret = FALSE

\* every auto-approve condition is matched by the payload
AllMatched(conditions, data) ==
    \A k \in DOMAIN conditions : k \in DOMAIN data /\ data[k] = conditions[k]

\* the ids the gate holds in some partition
Held == pending_requests \cup approved_requests \cup rejected_requests

\* C2: execute_workflow on a registered workflow with requires_approval true
\* whose auto-approve conditions are not all matched by the payload creates
\* exactly one new pending request in the gate (holding the callback), does
\* not invoke the callback, and returns executed=false, approval_required=true
\* and the request_id of that new request.
C2_GatedWorkflowFilesOneRequest ==
    [][ call'.op = "execute_workflow" =>
        \A w \in ExecutedIds, u \in Owners, d \in Payloads,
           cb \in Callbacks \cup {None} :
          ( /\ execute_workflow(w, u, d, cb)
            /\ w \in DOMAIN workflow_configs
            /\ workflow_configs[w].requires_approval
            /\ ~AllMatched(workflow_configs[w].auto_approve_conditions, d) )
          => \E i \in RequestIds :
                /\ i \notin Held
                /\ seen_in[i] = {}
                /\ pending_requests' = pending_requests \cup {i}
                /\ approved_requests' = approved_requests
                /\ rejected_requests' = rejected_requests
                /\ \A j \in Held : requests'[j] = requests[j]
                /\ requests'[i].status = PENDING
                /\ requests'[i].user_id = u
                /\ requests'[i].data = d
                /\ IF cb # None
                   THEN callbacks' = DictSet(callbacks, i, cb)
                   ELSE callbacks' = callbacks
                /\ fired' = <<>>
                /\ invoked' = invoked
                /\ exc' = None
                /\ ret' = [success |-> TRUE, executed |-> FALSE,
                           approval_required |-> TRUE, request_id |-> i]
      ]_vars

\* C2 witness: a workflow with a non-empty condition set was executed with a
\* callback and a payload that misses a condition, and the request is pending
C2_Witness ==
    /\ call.op = "execute_workflow"
    /\ "request_id" \in DOMAIN ret
    /\ ret.request_id \in pending_requests
    /\ ret.request_id \in DOMAIN callbacks
    /\ "apply_to_job" \in DOMAIN workflow_configs
    /\ workflow_configs["apply_to_job"].auto_approve_conditions # EmptyDict
    /\ ~AllMatched(workflow_configs["apply_to_job"].auto_approve_conditions,
                   requests[ret.request_id].data)

\* C3: approve_request(id) on a pending request returns true; afterwards the
\* request is absent from get_pending_requests, get_request(id) still returns
\* it with status approved and the given reviewer and notes, and its callback
\* (if one was stored and execute_callback is true) has been invoked exactly
\* once, with that request.
C3_ApprovePending ==
    [][ \A i \in pending_requests :
        (call'.op = "approve_request" /\ call'.request_id = i) =>
        /\ exc' = None
        /\ ret' = TRUE
        /\ \A r \in get_pending_requests(None)' : r.request_id # i
        /\ \A u \in Owners : \A r \in get_pending_requests(u)' : r.request_id # i
        /\ get_request(i)' # Nothing
        /\ get_request(i)'[1] = [requests[i] EXCEPT
                                    !.status = APPROVED,
                                    !.reviewed_at = now,
                                    !.reviewed_by = call'.reviewed_by,
                                    !.reviewer_notes = call'.notes]
        /\ IF i \in DOMAIN callbacks /\ call'.execute_callback
           THEN /\ fired' = <<Invocation(callbacks[i], get_request(i)'[1])>>
                /\ invoked[i] = 0
                /\ invoked'[i] = 1
           ELSE /\ fired' = <<>>
                /\ invoked'[i] = invoked[i]
      ]_vars

\* C3 witness: a pending request with a callback was approved and the callback
\* was handed the approved request
C3_Witness ==
    /\ call.op = "approve_request"
    /\ ret = TRUE
    /\ Len(fired) = 1
    /\ get_request(call.request_id) = Just(fired[1].arg)
    /\ fired[1].arg.status = APPROVED
    /\ fired[1].arg.reviewer_notes = call.notes

\* C4: reject_request(id) on a pending request returns true, moves it from
\* pending to rejected with status rejected and the reviewer metadata, and
\* discards its stored callback; from then on that callback is never invoked,
\* and a later cancel_request(id) or approve_request(id) returns false.
C4_RejectPending ==
    [][ /\ (call'.op = "reject_request" /\ call'.request_id \in pending_requests) =>
           LET i == call'.request_id IN
           /\ exc' = None
           /\ ret' = TRUE
           /\ i \notin pending_requests'
           /\ i \in rejected_requests'
           /\ requests'[i] = [requests[i] EXCEPT
                                 !.status = REJECTED,
                                 !.reviewed_at = now,
                                 !.reviewed_by = call'.reviewed_by,
                                 !.reviewer_notes = call'.notes]
           /\ i \notin DOMAIN callbacks'
           /\ fired' = <<>>
           /\ invoked' = invoked
        /\ \A i \in RequestIds : REJECTED \in seen_in[i] =>
              /\ i \notin DOMAIN callbacks'
              /\ invoked'[i] = 0
              /\ \A k \in 1..Len(fired') : fired'[k].arg.request_id # i
              /\ (call'.op \in {"approve_request", "cancel_request"}
                    /\ call'.request_id = i) => (exc' = None /\ ret' = FALSE)
      ]_vars

\* C4 witness: approve_request, asking for the callback, was called on a
\* request that had been rejected
C4_Witness ==
    /\ call.op = "approve_request"
    /\ call.request_id \in rejected_requests
    /\ call.execute_callback
    /\ ret = FALSE
    /\ requests[call.request_id].status = REJECTED
    /\ requests[call.request_id].reviewed_by \in Reviewers

\* C5: cancel_request(id) returns true exactly when id is pending at the call;
\* on true the request is removed from the gate entirely (get_request(id)
\* returns nothing afterwards) and its callback is discarded; on false (id
\* approved, rejected, already cancelled or unknown) every partition and every
\* stored request is left unchanged.
C5_CancelOnlyPending ==
    [][ \A i \in AnyIds :
        (call'.op = "cancel_request" /\ call'.request_id = i) =>
        /\ exc' = None
        /\ ret' = (i \in pending_requests)
        /\ fired' = <<>>
        /\ invoked' = invoked
        /\ IF i \in pending_requests
           THEN /\ get_request(i)' = Nothing
                /\ i \notin DOMAIN callbacks'
                /\ pending_requests' = pending_requests \ {i}
           ELSE /\ pending_requests' = pending_requests
                /\ callbacks' = callbacks
                /\ \A j \in AnyIds : get_request(j)' = get_request(j)
        /\ approved_requests' = approved_requests
        /\ rejected_requests' = rejected_requests
        /\ \A j \in Held \ {i} : get_request(j)' = get_request(j)
        /\ \A j \in DOMAIN callbacks \ {i} :
              j \in DOMAIN callbacks' /\ callbacks'[j] = callbacks[j]
      ]_vars

\* C5 witness: a pending request with a callback was cancelled while the gate
\* held another request
C5_Witness ==
    /\ call.op = "cancel_request"
    /\ ret = TRUE
    /\ get_request(call.request_id) = Nothing
    /\ Cancelled(call.request_id)
    /\ Held # {}

\* C6: approve_request(id) and reject_request(id) on an id that is not pending
\* (already approved, already rejected, cancelled, purged or never created)
\* return false, change no partition, no request field and no stored callback,
\* and invoke no callback.
C6_DecideNotPending ==
    [][ \A i \in AnyIds \ pending_requests :
        (call'.op \in {"approve_request", "reject_request"}
            /\ call'.request_id = i) =>
        /\ exc' = None
        /\ ret' = FALSE
        /\ fired' = <<>>
        /\ invoked' = invoked
        /\ pending_requests' = pending_requests
        /\ approved_requests' = approved_requests
        /\ rejected_requests' = rejected_requests
        /\ requests' = requests
        /\ callbacks' = callbacks
      ]_vars

\* C6 witness: approve_request, asking for the callback, on a request that was
\* approved without running its callback and then purged, its callback still
\* being stored
C6_Witness ==
    /\ call.op = "approve_request"
    /\ call.execute_callback
    /\ call.request_id \in DOMAIN callbacks
    /\ call.request_id \notin Held
    /\ APPROVED \in seen_in[call.request_id]
    /\ invoked[call.request_id] = 0
    /\ ret = FALSE

\* C7: when the callback invoked by approve_request raises, the exception does
\* not reach the caller, approve_request still returns true, and the request
\* stays in the approved partition with status approved.
C7_CallbackFailureKeepsApproval ==
    (call.op = "approve_request" /\ fired # <<>> /\ fired[1].outcome = "raised") =>
        /\ exc = None
        /\ ret = TRUE
        /\ call.request_id \in approved_requests
        /\ call.request_id \notin pending_requests
        /\ requests[call.request_id].status = APPROVED
        /\ get_request(call.request_id) = Just(fired[1].arg)

\* C7 witness: approve_request ran a callback that raised
C7_Witness ==
    /\ call.op = "approve_request"
    /\ Len(fired) = 1
    /\ Raises(fired[1].callback)
    /\ fired[1].outcome = "raised"
    /\ fired[1].arg.request_id = call.request_id

\* C8: in every reachable state each request held by the gate is in exactly one
\* of the pending, approved and rejected partitions, and its status field
\* equals the partition that holds it.
C8_OnePartitionMatchingStatus ==
    /\ pending_requests \cap approved_requests = {}
    /\ pending_requests \cap rejected_requests = {}
    /\ approved_requests \cap rejected_requests = {}
    /\ \A i \in Held :
          /\ i \in DOMAIN requests
          /\ requests[i].request_id = i
          /\ PartitionsOf(i) = {requests[i].status}

\* C8 witness: the gate holds an approved and a rejected request
C8_Witness ==
    /\ approved_requests # {}
    /\ rejected_requests # {}
    /\ \E i \in rejected_requests : requests[i].status = REJECTED

\* C9: request status moves in one direction only: a request that has been
\* approved is never later pending or rejected, one that has been rejected is
\* never later pending or approved, and the only moves between partitions are
\* pending to approved and pending to rejected.
C9_OneDirection ==
    [][ \A i \in RequestIds :
        /\ APPROVED \in seen_in[i] =>
              i \notin pending_requests' /\ i \notin rejected_requests'
        /\ REJECTED \in seen_in[i] =>
              i \notin pending_requests' /\ i \notin approved_requests'
        /\ (i \in approved_requests' /\ i \notin approved_requests) =>
              i \in pending_requests /\ i \notin pending_requests'
        /\ (i \in rejected_requests' /\ i \notin rejected_requests) =>
              i \in pending_requests /\ i \notin pending_requests'
        /\ (i \in pending_requests' /\ i \notin pending_requests) =>
              seen_in[i] = {}
        /\ (i \in Held /\ i \in Held' /\ requests[i].status # PENDING) =>
              requests'[i].status = requests[i].status
      ]_vars

\* C9 witness: reject_request was tried on an approved request, which stayed
\* approved
C9_Witness ==
    /\ call.op = "reject_request"
    /\ call.request_id \in approved_requests
    /\ requests[call.request_id].status = APPROVED
    /\ seen_in[call.request_id] = {PENDING, APPROVED}

\* no thread is inside a method of the gate
Quiescent == \A t \in Threads : threads[t].pc \in {"idle", "done"}

\* no call on the gate ends in an exception
NoException == \A t \in Threads : threads[t].exc = None

\* once the calls are over every held request sits in the partition named by
\* its status
PartitionMatchesStatus ==
    Quiescent => \A i \in Held : PartitionsOf(i) = {requests[i].status}

\* C10: each gate operation is atomic with respect to concurrent callers: when
\* approve_request, reject_request and cancel_request race on the same pending
\* id, at most one of them returns True, no call ends in an exception, and
\* once the calls are over no request sits in a partition whose name differs
\* from its status.
C10_OperationsAtomic ==
    /\ NoException
    /\ \A i \in RequestIds : decided[i] <= 1
    /\ PartitionMatchesStatus

\* request i was reviewed, and longer than `days` ago
OlderThan(i, days) ==
    /\ requests[i].reviewed_at # NoTime
    /\ now - requests[i].reviewed_at > days

\* C11: clear_old_requests(days) removes exactly the approved and rejected
\* requests whose review timestamp is older than the threshold, returns the
\* number removed, and leaves every pending request and every younger approved
\* or rejected request unchanged.
C11_PurgeRemovesExactlyOld ==
    [][ \A days \in DaysChoices :
          (call'.op = "clear_old_requests" /\ call'.days = days) =>
            /\ approved_requests' =
                  {i \in approved_requests : ~OlderThan(i, days)}
            /\ rejected_requests' =
                  {i \in rejected_requests : ~OlderThan(i, days)}
            /\ pending_requests' = pending_requests
            /\ ret' = Cardinality({i \in approved_requests \cup rejected_requests :
                                      OlderThan(i, days)})
            /\ \A i \in Held' : requests'[i] = requests[i]
            /\ exc' = None
      ]_vars

\* C11 witness: a purge removed one decided request and kept a younger one,
\* with the day's threshold between their review times
C11_Witness ==
    /\ call.op = "clear_old_requests"
    /\ call.days = 0
    /\ ret = 1
    /\ \E i \in approved_requests \cup rejected_requests :
          requests[i].reviewed_at = now

\* the calls fired by a step are exactly one call of cb on d when cb is
\* present, and none when it is absent
CalledNow(cb, d) ==
    IF cb = None
    THEN fired' = <<>>
    ELSE /\ Len(fired') = 1
         /\ fired'[1].callback = cb
         /\ fired'[1].arg = d

\* workflow w is registered as gated and payload d meets its non-empty
\* auto-approve condition set
AutoApproves(w, d) ==
    /\ w \in DOMAIN workflow_configs
    /\ workflow_configs[w].requires_approval
    /\ workflow_configs[w].auto_approve_conditions # EmptyDict
    /\ AllMatched(workflow_configs[w].auto_approve_conditions, d)

\* C12 as stated: execute_workflow on a gated workflow whose auto-approve
\* conditions are all matched by the payload invokes the callback immediately
\* (if present), returns executed=true with auto_approved=true, and creates no
\* request in the approval gate.
C12_AutoApprovedAlwaysReportsExecuted ==
    [][ call'.op = "execute_workflow" =>
        \A w \in ExecutedIds, u \in Owners, d \in Payloads,
           cb \in Callbacks \cup {None} :
          (execute_workflow(w, u, d, cb) /\ AutoApproves(w, d)) =>
             /\ CalledNow(cb, d)
             /\ "executed" \in DOMAIN ret'
             /\ ret'.executed
             /\ "auto_approved" \in DOMAIN ret'
             /\ ret'.auto_approved
             /\ UNCHANGED gate_vars
      ]_vars

\* C12, amended: on a gated workflow whose non-empty auto-approve conditions
\* are all matched by the payload, execute_workflow invokes the callback
\* immediately (if present) and creates no request in the approval gate; it
\* returns success, executed=true and auto_approved=true when the callback is
\* absent or returns, and success=false with the error (and no executed or
\* auto_approved key) when the callback raises.
C12_AutoApprovedRunsCallbackNow ==
    [][ call'.op = "execute_workflow" =>
        \A w \in ExecutedIds, u \in Owners, d \in Payloads,
           cb \in Callbacks \cup {None} :
          (execute_workflow(w, u, d, cb) /\ AutoApproves(w, d)) =>
             /\ CalledNow(cb, d)
             /\ IF cb # None /\ Raises(cb)
                THEN /\ DOMAIN ret' = {"success", "error"}
                     /\ ~ret'.success
                ELSE ret' = [success |-> TRUE, executed |-> TRUE,
                             auto_approved |-> TRUE]
             /\ exc' = None
             /\ invoked' = invoked
             /\ UNCHANGED gate_vars
      ]_vars

\* C12 witness: a gated workflow with condition amount = 0 is registered, the
\* gate holds no request, and an execution ran its callback at once and
\* reported auto_approved
C12_Witness ==
    /\ call.op = "execute_workflow"
    /\ "auto_approved" \in DOMAIN ret
    /\ ret.auto_approved
    /\ Len(fired) = 1
    /\ fired[1].arg = AmountIs(0)
    /\ "apply_to_job" \in DOMAIN workflow_configs
    /\ workflow_configs["apply_to_job"].requires_approval
    /\ workflow_configs["apply_to_job"].auto_approve_conditions = AmountIs(0)
    /\ Held = {}

\* the reference predicate: the condition set is non-empty and every condition
\* key is in the payload with an equal value (equal as Python compares values)
AutoApproveReference(conditions, data) ==
    /\ DOMAIN conditions # {}
    /\ \A k \in DOMAIN conditions :
          k \in DOMAIN data /\ PyEq(data[k], conditions[k])

\* the payload without the keys the conditions do not name
OnlyConditionKeys(conditions, data) ==
    [k \in DOMAIN data \cap DOMAIN conditions |-> data[k]]

\* C13: the auto-approve decision equals the reference predicate: true if and
\* only if the condition set is non-empty and every condition key is present
\* in the payload with an equal value; an empty condition set never
\* auto-approves, and extra payload keys do not affect the result.
C13_AutoApproveIsReference ==
    call.op = "_check_auto_approve" =>
       /\ ret = AutoApproveReference(call.conditions, call.data)
       /\ call.conditions = EmptyDict => ret = FALSE
       /\ ret = _check_auto_approve(call.conditions,
                    OnlyConditionKeys(call.conditions, call.data))

\* C13 witness: a payload with a key the conditions do not name was
\* auto-approved
C13_Witness ==
    /\ call.op = "_check_auto_approve"
    /\ ret = TRUE
    /\ DOMAIN call.conditions # {}
    /\ DOMAIN call.data \ DOMAIN call.conditions # {}

\* workflow w is registered with requires_approval false
Ungated(w) ==
    /\ w \in DOMAIN workflow_configs
    /\ ~workflow_configs[w].requires_approval

\* C14 as stated: execute_workflow on a workflow registered with
\* requires_approval false invokes the callback synchronously (if present) and
\* returns executed=true, and no approval-gate request is created on this
\* path, for every payload and callback.
C14_UngatedAlwaysReportsExecuted ==
    [][ call'.op = "execute_workflow" =>
        \A w \in ExecutedIds, u \in Owners, d \in Payloads,
           cb \in Callbacks \cup {None} :
          (execute_workflow(w, u, d, cb) /\ Ungated(w)) =>
             /\ CalledNow(cb, d)
             /\ "executed" \in DOMAIN ret'
             /\ ret'.executed
             /\ UNCHANGED gate_vars
      ]_vars

\* C14, amended: on a workflow registered with requires_approval false,
\* execute_workflow invokes the callback synchronously (if present) and
\* creates no approval-gate request, for every payload and callback; it
\* returns success and executed=true when the callback is absent or returns,
\* and success=false with the error (and no executed key) when the callback
\* raises.
C14_UngatedRunsCallbackNow ==
    [][ call'.op = "execute_workflow" =>
        \A w \in ExecutedIds, u \in Owners, d \in Payloads,
           cb \in Callbacks \cup {None} :
          (execute_workflow(w, u, d, cb) /\ Ungated(w)) =>
             /\ CalledNow(cb, d)
             /\ IF cb # None /\ Raises(cb)
                THEN /\ DOMAIN ret' = {"success", "error"}
                     /\ ~ret'.success
                ELSE ret' = [success |-> TRUE, executed |-> TRUE]
             /\ exc' = None
             /\ invoked' = invoked
             /\ UNCHANGED gate_vars
      ]_vars

\* C14 witness: an ungated workflow whose conditions the payload does not
\* meet was executed, its callback ran at once and the gate holds nothing
C14_Witness ==
    /\ call.op = "execute_workflow"
    /\ ret = [success |-> TRUE, executed |-> TRUE]
    /\ Len(fired) = 1
    /\ fired[1].arg = AmountIs(5)
    /\ "apply_to_job" \in DOMAIN workflow_configs
    /\ ~workflow_configs["apply_to_job"].requires_approval
    /\ Held = {}

\* C15: execute_workflow with a workflow id that was never registered returns
\* a failure result, invokes no callback, creates no approval-gate request and
\* raises nothing.
C15_UnknownWorkflowFails ==
    [][ call'.op = "execute_workflow" =>
        \A w \in ExecutedIds, u \in Owners, d \in Payloads,
           cb \in Callbacks \cup {None} :
          (execute_workflow(w, u, d, cb) /\ w \notin DOMAIN workflow_configs) =>
             /\ "success" \in DOMAIN ret'
             /\ ~ret'.success
             /\ "error" \in DOMAIN ret'
             /\ "executed" \notin DOMAIN ret'
             /\ "request_id" \notin DOMAIN ret'
             /\ fired' = <<>>
             /\ invoked' = invoked
             /\ exc' = None
             /\ UNCHANGED gate_vars
             /\ workflow_configs' = workflow_configs
      ]_vars

\* C15 witness: with a workflow registered and a request pending, an
\* execution of an id that is not registered returned the failure naming it
C15_Witness ==
    /\ call.op = "execute_workflow"
    /\ "error" \in DOMAIN ret
    /\ ret.error = <<"Unknown workflow: ", "no_such_workflow">>
    /\ workflow_configs # EmptyDict
    /\ pending_requests # {}

\* the records the run under way has appended so far
RunRecords ==
    SubSeq(execution_history, co.base + 1, Len(execution_history))

\* the payload the steps recorded in `records` leave behind, starting from
\* `start`: the result of the last step that was not skipped
RECURSIVE PayloadAfter(_, _)
PayloadAfter(records, start) ==
    IF records = <<>>
    THEN start
    ELSE LET last == records[Len(records)] IN
         IF last.status = "skipped"
         THEN PayloadAfter(SubSeq(records, 1, Len(records) - 1), start)
         ELSE last.result

\* the step taken is one on a name that is registered
StepsRegistered ==
    /\ co.pc = "loop"
    /\ co'.pc = "loop"
    /\ co'.i = co.i + 1
    /\ co.workflow[co.i] \in DOMAIN agents

\* C16: execute_workflow threads the payload through the agents in list
\* order: each registered agent's execute receives exactly the running payload
\* left by the previous step (the input, for the first), and on normal return
\* its output becomes the running payload with a success record appended.
C16_PayloadThreaded ==
    [][ StepsRegistered =>
          LET agent_name == co.workflow[co.i]
              outcome == Execute(agents[agent_name], co.result) IN
          /\ co.result = PayloadAfter(RunRecords, co.input_data)
          /\ co'.passed = <<co.result>>
          /\ ~outcome.raised =>
                /\ co'.result = outcome.value
                /\ Len(execution_history') = Len(execution_history) + 1
                /\ execution_history'[Len(execution_history')].agent = agent_name
                /\ execution_history'[Len(execution_history')].status = "success"
                /\ execution_history'[Len(execution_history')].result = outcome.value
      ]_vars

\* C16 witness: the run of <<A, B>>, A returning {x: 1} and B adding y: 2, is
\* over with payload {x: 1, y: 2} and two success records
C16_Witness ==
    /\ co.pc = "returned"
    /\ co.workflow = <<"A", "B">>
    /\ co.ret = [k \in {"x", "y"} |-> IF k = "x" THEN PyInt(1) ELSE PyInt(2)]
    /\ Len(RunRecords) = 2
    /\ RunRecords[1].status = "success"
    /\ RunRecords[1].agent = "A"
    /\ RunRecords[2].status = "success"
    /\ RunRecords[2].agent = "B"
    /\ co.passed = <<[k \in {"x"} |-> PyInt(1)]>>

\* C17: when an agent's execute raises during execute_workflow, the workflow
\* is not aborted: the running payload becomes {status: "error", error:
\* <message>, agent: <name>}, a record with status error is appended, that
\* error payload is the input of the next step, and every remaining step of
\* the list is still processed.
C17_RaiseDegradesStep ==
    [][ /\ StepsRegistered =>
            LET agent_name == co.workflow[co.i]
                outcome == Execute(agents[agent_name], co.result) IN
            outcome.raised =>
               /\ DOMAIN co'.result = {"status", "error", "agent"}
               /\ co'.result["status"] = PyStr("error")
               /\ co'.result["error"] = PyStr(outcome.message)
               /\ co'.result["agent"] = PyStr(agent_name)
               /\ execution_history' = Append(execution_history,
                     [agent |-> agent_name, status |-> "error",
                      started_at |-> now, finished_at |-> now,
                      result |-> co'.result])
               /\ co'.workflow = co.workflow
               /\ exc' = None
        /\ (StepsRegistered /\ RunRecords # <<>>
               /\ RunRecords[Len(RunRecords)].status = "error") =>
               co'.passed = <<RunRecords[Len(RunRecords)].result>>
        /\ (co.pc = "loop" /\ co'.pc = "returned") =>
               Len(RunRecords) = Len(co.workflow)
      ]_vars

\* C17 witness: in a run of <<B, B>> the first B raised; the second, by then
\* replaced with the agent that adds y, received the error payload and
\* returned it with y added
C17_Witness ==
    /\ co.pc = "returned"
    /\ co.workflow = <<"B", "B">>
    /\ Len(RunRecords) = 2
    /\ RunRecords[1].status = "error"
    /\ RunRecords[2].status = "success"
    /\ co.passed = <<RunRecords[1].result>>
    /\ co.passed[1]["agent"] = PyStr("B")
    /\ DOMAIN co.ret = {"status", "error", "agent", "y"}

\* the step taken is one on a name that is not registered
StepsUnregistered ==
    /\ co.pc = "loop"
    /\ co'.pc = "loop"
    /\ co'.i = co.i + 1
    /\ co.workflow[co.i] \notin DOMAIN agents

\* C18: a workflow name that is not registered produces exactly one record
\* with status skipped and reason "agent not registered", invokes no agent,
\* and leaves the running payload exactly as it was before that step, so the
\* next step receives it unchanged.
C18_UnregisteredSkipped ==
    [][ StepsUnregistered =>
          /\ Len(execution_history') = Len(execution_history) + 1
          /\ SubSeq(execution_history', 1, Len(execution_history))
                = execution_history
          /\ LET record == execution_history'[Len(execution_history')] IN
             /\ record.agent = co.workflow[co.i]
             /\ record.status = "skipped"
             /\ DOMAIN record.result = {"status", "reason"}
             /\ record.result["status"] = PyStr("skipped")
             /\ record.result["reason"] = PyStr("agent not registered")
          /\ co'.passed = <<>>
          /\ co'.result = co.result
          /\ agents' = agents
      ]_vars

\* C18 witness: in a run of <<A, C>> on input {seed: 7}, A (not registered
\* when its step came) and C were skipped, and the payload returned is the
\* input
C18_Witness ==
    /\ co.pc = "returned"
    /\ co.workflow = <<"A", "C">>
    /\ Len(RunRecords) = 2
    /\ RunRecords[1].status = "skipped"
    /\ RunRecords[2].status = "skipped"
    /\ co.input_data = [k \in {"seed"} |-> PyInt(7)]
    /\ co.ret = co.input_data

C20_ReturnsLastPayload ==
    co.pc = "returned" =>
       /\ co.ret = co.result
       /\ co.ret = PayloadAfter(RunRecords, co.input_data)
       /\ (\A k \in 1..Len(RunRecords) : RunRecords[k].status = "skipped")
             => co.ret = co.input_data

\* C20 witness: a run of <<A, C>> on input {seed: 7} is over; A returned the
\* empty payload, C was skipped, and the empty payload was returned
C20_Witness ==
    /\ co.pc = "returned"
    /\ co.workflow = <<"A", "C">>
    /\ co.input_data = [k \in {"seed"} |-> PyInt(7)]
    /\ RunRecords[1].status = "success"
    /\ RunRecords[1].result = EmptyDict
    /\ RunRecords[2].status = "skipped"
    /\ co.ret = EmptyDict

\* C21: within one execute_workflow run the steps are strictly sequential: at
\* most one agent's execute is in progress at any time, and the execute of a
\* step starts only after every earlier step's execute has returned or raised
\* and that step's record has been appended.
C21_StepsStrictlySequential ==
    /\ Cardinality(executing) <= 1
    /\ \A e \in executing :
          /\ co.pc = "await"
          /\ e.step = co.i
          /\ Len(RunRecords) = e.step - 1
          /\ \A j \in 1..(e.step - 1) : RunRecords[j].agent = co.workflow[j]
    /\ co.pc = "returned" => executing = {}

\* C21 witness: the second step's execute is in progress, after the first
\* step's agent raised and its error record was appended
C21_Witness ==
    /\ co.pc = "await"
    /\ co.i = 2
    /\ \E e \in executing : e.step = 2
    /\ Len(RunRecords) = 1
    /\ RunRecords[1].status = "error"

\* C22: for every current state and every target in the allowed-transitions
\* set of that state, transition(target, context) returns true, sets
\* current_state to target, appends exactly one entry (target) to
\* state_history, and merges the supplied context keys into the stored
\* context, overwriting same-named keys and keeping all other keys.
C22_AllowedTransitionSucceeds ==
    [][ ( /\ call'.op = "transition"
          /\ current_state \in WorkflowState
          /\ call'.new_state \in _allowed_transitions[current_state] ) =>
             /\ ret' = TRUE
             /\ exc' = None
             /\ current_state' = call'.new_state
             /\ Len(state_history') = Len(state_history) + 1
             /\ SubSeq(state_history', 1, Len(state_history)) = state_history
             /\ state_history'[Len(state_history')] = call'.new_state
             /\ DOMAIN context' = DOMAIN context \cup DOMAIN call'.context
             /\ \A k \in DOMAIN call'.context : context'[k] = call'.context[k]
             /\ \A k \in DOMAIN context \ DOMAIN call'.context :
                   context'[k] = context[k]
      ]_vars

\* C22 witness: an allowed transition was made with a context that overwrote
\* one stored key and kept another
C22_Witness ==
    /\ call.op = "transition"
    /\ ret = TRUE
    /\ call.context = [k \in {"user"} |-> PyInt(1)]
    /\ context = [k \in ContextKeys |-> IF k = "user" THEN PyInt(1) ELSE PyInt(2)]
    /\ Len(state_history) = 3

\* C23: for every current state and every target not in the
\* allowed-transitions set of that state, transition(target, context) returns
\* false without raising and leaves current_state, state_history and the
\* context map unchanged, even when a context is supplied.
C23_DisallowedTransitionRefused ==
    [][ ( /\ call'.op = "transition"
          /\ current_state \in WorkflowState
          /\ call'.new_state \notin _allowed_transitions[current_state] ) =>
             /\ ret' = FALSE
             /\ exc' = None
             /\ current_state' = current_state
             /\ state_history' = state_history
             /\ context' = context
      ]_vars

\* C23 witness: a machine that has moved and holds a context refused a
\* transition that came with a context of its own
C23_Witness ==
    /\ call.op = "transition"
    /\ ret = FALSE
    /\ call.context = [k \in ContextKeys |-> PyInt(2)]
    /\ call.new_state \in WorkflowState
    /\ context = [k \in {"user"} |-> PyInt(1)]
    /\ Len(state_history) = 2

\* C29: in every reachable state of a StateMachine, the last entry of
\* state_history equals current_state, every consecutive pair of history
\* entries is an edge of the allowed-transitions table, and the history length
\* is 1 plus the number of transition calls that returned true.
C29_HistoryFollowsTable ==
    current_state # NoState =>
       /\ state_history # <<>>
       /\ state_history[Len(state_history)] = current_state
       /\ \A n \in 1..(Len(state_history) - 1) :
             state_history[n + 1] \in _allowed_transitions[state_history[n]]
       /\ Len(state_history) = 1 + transitions_made

\* C29 witness: a machine has gone from complete through init to job_search,
\* with refused transitions in between
C29_Witness ==
    /\ state_history = <<COMPLETE, INIT, JOB_SEARCH>>
    /\ transitions_made = 2
    /\ call.op = "transition"
    /\ ret = FALSE

\* what a payload supplies as its error
ErrorSupplied(input_data) ==
    Truthy(Get(input_data, "error")) \/ Truthy(Get(input_data, "exception"))

\* C24: ErrorHandlerAgent.execute returns status "retry" with recovery
\* retry_count = retry_count + 1 and transient true exactly when the error is
\* classified transient and retry_count < max_retries; when an error is
\* supplied and it is non-transient or retry_count >= max_retries it returns
\* status "failed" with retry_count unchanged.
C24_RetryIffTransientAndBelowLimit ==
    call.op = "execute" =>
       LET input_data == call.input_data
           count == retry_count(input_data)
           retrying == /\ error_handler.state.last_error.transient
                       /\ count < max_retries(error_handler.config) IN
       /\ (ret.status = "retry") <=> retrying
       /\ retrying =>
             /\ ret.recovery.retry_count = count + 1
             /\ ret.recovery.transient = TRUE
       /\ (ErrorSupplied(input_data) /\ ~retrying) =>
             /\ ret.status = "failed"
             /\ ret.recovery.retry_count = count

\* C24 witness: with the default max_retries, "Rate Limit hit" at count 3
\* has failed, after the same error at count 0 was answered with a retry
C24_Witness ==
    /\ call.op = "execute"
    /\ error_handler.config = EmptyDict
    /\ call.input_data = [k \in {"error", "retry_count"} |->
                             IF k = "error" THEN PyText(RateLimitText) ELSE PyInt(3)]
    /\ ret.status = "failed"
    /\ ret.recovery.retry_count = 3
    /\ executes[1].retry_count = 0
    /\ executes[1].transient
    /\ loop.pc = "done"
    /\ loop.results = <<"retry", "retry", "retry", "failed">>

\* C25: when ErrorHandlerAgent.execute decides to retry, the reported delay
\* equals base_delay * backoff_factor^retry_count (for integer base and
\* factor); when it does not retry, no positive delay is reported.
C25_DelayIsExponential ==
    call.op = "execute" =>
       IF ret.status = "retry"
       THEN ret.recovery.delay_seconds =
               base_delay(error_handler.config)
                 * (backoff_factor(error_handler.config) ^ retry_count(call.input_data))
       ELSE "delay_seconds" \notin DOMAIN ret.recovery

\* C25 witness: with base delay 3 and the default factor 2, the retry at
\* count 3 reports a delay of 24
C25_Witness ==
    /\ call.op = "execute"
    /\ ret.status = "retry"
    /\ retry_count(call.input_data) = 3
    /\ base_delay(error_handler.config) = 3
    /\ backoff_factor(error_handler.config) = 2
    /\ ret.recovery.delay_seconds = 24

\* C26: for every input payload that supplies no error at all (no error and
\* no exception entry, whatever other keys such as retry_count it carries),
\* ErrorHandlerAgent.execute returns status "success" with recovery action
\* "noop".
C26_NoErrorIsSuccess ==
    ( /\ call.op = "execute"
      /\ "error" \notin DOMAIN call.input_data
      /\ "exception" \notin DOMAIN call.input_data ) =>
         /\ ret.status = "success"
         /\ ret.recovery.action = "noop"

\* C27: after any number of ErrorHandlerAgent.execute calls on one instance,
\* its error history holds at most 20 records, namely the most recent
\* min(n, 20) records in call order, and last_error equals the record of the
\* most recent call.
C27_HistoryKeepsLast20 ==
    error_handler.made =>
       LET n == Len(executes)
           errors == DictGet(error_handler.state, "errors", <<>>) IN
       /\ Len(errors) <= 20
       /\ Len(errors) = IF n < 20 THEN n ELSE 20
       /\ \A m \in 1..Len(errors) : errors[m] = executes[n - Len(errors) + m]
       /\ n > 0 => error_handler.state.last_error = executes[n]

\* C27 witness: 23 calls, one of them before a retry loop of 22; the three
\* oldest records are gone
C27_Witness ==
    /\ error_handler.made
    /\ Len(executes) = 23
    /\ executes[1].message = DiskFullText
    /\ Len(error_handler.state.errors) = 20
    /\ error_handler.state.errors[1].retry_count = 2
    /\ error_handler.state.errors[20].retry_count = 21
    /\ error_handler.state.last_error.retry_count = 21

\* the results of a retry loop that ends as it should
RetriesThenFailed(limit) ==
    [n \in 1..(limit + 1) |-> IF n <= limit THEN "retry" ELSE "failed"]

\* C30: a retry loop that re-submits the same transient error to
\* ErrorHandlerAgent.execute with the retry_count it returned, starting from
\* 0, always ends: it yields exactly max_retries results with status "retry"
\* (none when max_retries is 0) followed by a result with status "failed".
C30_RetryLoopEnds ==
    ( /\ loop.pc = "running"
      /\ is_transient(message(loop.error), code(loop.error)) )
    ~> ( /\ loop.pc = "done"
         /\ loop.results = RetriesThenFailed(max_retries(error_handler.config)) )

\* C30 witness: a loop on a transient error has ended after the 21 retries
\* its agent allows
C30_Witness ==
    /\ loop.pc = "done"
    /\ loop.error = PyDict([k \in {"code"} |-> PyText(TimeoutCodeText)])
    /\ max_retries(error_handler.config) = 21
    /\ Len(loop.results) = 22
    /\ loop.results[21] = "retry"
    /\ loop.results[22] = "failed"

\* C28: a call through the RateLimiter wrapper that arrives while max_calls
\* timestamps within the trailing window are tracked is blocked until
\* time_window has elapsed since the oldest tracked timestamp, and only then
\* is its timestamp recorded and the wrapped function invoked; a call
\* arriving below capacity proceeds without blocking.
C28_BlockedUntilWindowElapsed ==
    /\ \A n \in 1..Len(invocations) :
          LET made == invocations[n] IN
          IF made.oldest # NoTime
          THEN /\ made.stamp >= made.oldest + limiter.time_window
               /\ made.at >= made.stamp
          ELSE ~made.slept
    /\ \A t \in Threads :
          wrapper[t].pc \in {"record", "invoke"} =>
             IF wrapper[t].oldest # NoTime
             THEN clock >= wrapper[t].oldest + limiter.time_window
             ELSE ~wrapper[t].slept

\* C28 witness: max_calls 2 and window 1; two calls went through at time 0,
\* the third arrived at time 0 too and went through at time 1
C28_Witness ==
    /\ limiter.max_calls = 2
    /\ limiter.time_window = 1
    /\ Len(invocations) = 3
    /\ invocations[1].at = 0
    /\ invocations[2].at = 0
    /\ invocations[3].arrived = 0
    /\ invocations[3].oldest = 0
    /\ invocations[3].slept
    /\ invocations[3].stamp = 1
    /\ invocations[3].at = 1

\* the last place at which a state occurs in a history, 0 if it does not
LastIndex(history, state) ==
    IF \E n \in 1..Len(history) : history[n] = state
    THEN CHOOSE n \in 1..Len(history) :
            /\ history[n] = state
            /\ \A m \in (n + 1)..Len(history) : history[m] # state
    ELSE 0

\* C33: for a StateMachine started in INIT and any sequence of transition
\* calls, whenever current_state is OFFER the preceding history entry is
\* INTERVIEW, and whenever current_state is COMPLETE the state APPLICATION
\* occurs in the history after the most recent INIT entry.
C33_LifecycleOrder ==
    (current_state # NoState /\ state_history[1] = INIT) =>
       /\ current_state = OFFER =>
             /\ Len(state_history) >= 2
             /\ state_history[Len(state_history) - 1] = INTERVIEW
       /\ current_state = COMPLETE =>
             \E n \in (LastIndex(state_history, INIT) + 1)..Len(state_history) :
                 state_history[n] = APPLICATION

\* C33 witness: after a failure and a restart the machine has gone from INIT
\* through APPLICATION to COMPLETE
C33_Witness ==
    /\ current_state = COMPLETE
    /\ state_history = <<INIT, ERROR, INIT, JOB_SEARCH, JOB_RANKING,
                         DOCUMENT_PREP, APPLICATION, COMPLETE>>

\* the states a set of states leads to by any number of allowed transitions
RECURSIVE Closure(_)
Closure(states) ==
    LET further == states \cup UNION {_allowed_transitions[s] : s \in states} IN
    IF further = states THEN states ELSE Closure(further)

\* the states reached from a state by one or more allowed transitions
ReachableFrom(state) == Closure(_allowed_transitions[state])

\* C35: the allowed-transitions table has no dead end: from every state INIT
\* can be reached by a sequence of allowed transitions, every state can be
\* reached from INIT, and no state allows a transition to itself.
C35_NoDeadEnd ==
    /\ \A state \in WorkflowState :
          /\ INIT \in ReachableFrom(state)
          /\ state \in ReachableFrom(INIT)
          /\ state \notin _allowed_transitions[state]
    /\ current_state # NoState =>
          /\ INIT \in ReachableFrom(current_state)
          /\ current_state \in ReachableFrom(state_history[1])

\* C35 witness: a machine has walked the longest way to OUTREACH, failed,
\* and is back at INIT
C35_Witness ==
    state_history = <<INIT, PROFILE_PARSING, JOB_SEARCH, JOB_RANKING, DOCUMENT_PREP,
                      CONTACT_DISCOVERY, OUTREACH, ERROR, INIT>>

\* C36: when current_state is COMPLETE or ERROR, transition succeeds for
\* target INIT and fails for every other target, so the only way out of
\* either state is a restart at INIT.
C36_OnlyRestartLeavesTerminal ==
    [][ (call'.op = "transition" /\ current_state \in {COMPLETE, ERROR}) =>
           /\ (ret' = TRUE) <=> (call'.new_state = INIT)
           /\ ret' \in {TRUE, FALSE}
           /\ current_state' = IF call'.new_state = INIT THEN INIT ELSE current_state
           /\ current_state' # current_state => current_state' = INIT
      ]_vars

\* C36 witness: a machine that had reached COMPLETE and then failed after
\* its restart has been restarted again
C36_Witness ==
    /\ call.op = "transition"
    /\ call.new_state = INIT
    /\ ret = TRUE
    /\ state_history = <<COMPLETE, INIT, ERROR, INIT>>

\* how many of the calls made have a time inside the window that opens at
\* an instant
InWindow(times, from) ==
    Cardinality({m \in 1..Len(times) :
                    from <= times[m] /\ times[m] < from + limiter.time_window})

\* the timestamps recorded for the calls made, and the instants at which the
\* wrapped function was entered
Stamps == [n \in 1..Len(invocations) |-> invocations[n].stamp]
Starts == [n \in 1..Len(invocations) |-> invocations[n].at]

\* C31 as stated: for a single sequential caller and any arrival times, the
\* RateLimiter lets at most max_calls wrapped-function invocations start
\* within any half-open interval of length time_window.
C31_AtMostMaxCallsStart ==
    limiter.made =>
       \A n \in 1..Len(invocations) : InWindow(Starts, Starts[n]) <= limiter.max_calls

\* C31 as amended: for a single sequential caller, at most max_calls of the
\* timestamps the wrapper records (each taken just before its invocation
\* starts) fall within any half-open interval of length time_window, and no
\* invocation starts before its timestamp.
C31_AtMostMaxCallsStamped ==
    limiter.made =>
       \A n \in 1..Len(invocations) :
          /\ InWindow(Stamps, Stamps[n]) <= limiter.max_calls
          /\ Starts[n] >= Stamps[n]

\* C31 witness: max_calls 2 and window 2; calls stamped at 0 and 1, and a
\* third that arrived at 1 and was held until 2
C31_Witness ==
    /\ limiter.max_calls = 2
    /\ limiter.time_window = 2
    /\ Len(invocations) = 3
    /\ Stamps = <<0, 1, 2>>
    /\ invocations[3].arrived = 1
    /\ invocations[3].slept

\* how many timestamps still inside the window the calls under way or over
\* have recorded, and how many the limiter tracks
RecordedInWindow ==
    Cardinality({n \in 1..Len(invocations) : invocations[n].stamp > clock - limiter.time_window})
    + Cardinality({t \in Threads : /\ wrapper[t].pc = "invoke"
                                   /\ wrapper[t].stamp > clock - limiter.time_window})
TrackedInWindow ==
    Cardinality({n \in 1..Len(limiter.calls) : limiter.calls[n] > clock - limiter.time_window})

\* C32: when two threads call the same RateLimiter-wrapped function
\* concurrently, the throttle serializes them: the limit of max_calls
\* invocations per time_window still holds and no recorded timestamp is lost
\* from the tracked list.
C32_ThrottleSerializes ==
    limiter.made =>
       /\ \A n \in 1..Len(invocations) : InWindow(Stamps, Stamps[n]) <= limiter.max_calls
       /\ TrackedInWindow >= RecordedInWindow

\* C34: if the callback raises on the immediate path (requires_approval
\* false) or on the auto-approve path of WorkflowManager.execute_workflow,
\* the exception does not propagate: the call returns success=false with the
\* error message and creates no approval-gate request.
C34_CallbackFailureIsReported ==
    [][ ( /\ call'.op = "execute_workflow"
          /\ Len(fired') = 1
          /\ fired'[1].outcome = "raised" ) =>
             /\ exc' = None
             /\ DOMAIN ret' = {"success", "error"}
             /\ ret'.success = FALSE
             /\ ret'.error = <<"str(e) of ", fired'[1].callback>>
             /\ UNCHANGED gate_vars
      ]_vars

\* C34 witness: only ungated workflows are registered, and an execution
\* whose callback raised has reported the failure; the gate holds nothing
C34_Witness ==
    /\ call.op = "execute_workflow"
    /\ Len(fired) = 1
    /\ fired[1].outcome = "raised"
    /\ ret.success = FALSE
    /\ DOMAIN workflow_configs # {}
    /\ \A w \in DOMAIN workflow_configs : ~workflow_configs[w].requires_approval
    /\ Held = {}
    /\ uuids_issued = 0

\* C37: create_approval_request adds exactly one request, with an id
\* distinct from every id the gate has issued before, status pending, stored
\* in the pending partition and retaining the callback when one is given; all
\* other requests, partitions and stored callbacks are left unchanged.
C37_CreateAddsOnePending ==
    [][ call'.op = "create_approval_request" =>
          LET request_id == ret' IN
          /\ request_id \in RequestIds
          /\ request_id > uuids_issued
          /\ seen_in[request_id] = {}
          /\ request_id \notin Held
          /\ Held' = Held \cup {request_id}
          /\ pending_requests' = pending_requests \cup {request_id}
          /\ requests'[request_id].status = PENDING
          /\ requests'[request_id].request_id = request_id
          /\ IF call'.callback # None
             THEN callbacks' = DictSet(callbacks, request_id, call'.callback)
             ELSE callbacks' = callbacks
          /\ request_id \notin DOMAIN callbacks
          /\ \A i \in Held : requests'[i] = requests[i]
          /\ approved_requests' = approved_requests
          /\ rejected_requests' = rejected_requests
          /\ exc' = None
      ]_vars

\* C37 witness: a second request was created with a callback while the
\* first, approved without running its callback, still has its own
C37_Witness ==
    /\ call.op = "create_approval_request"
    /\ call.callback = "cb_ok"
    /\ ret = 2
    /\ approved_requests = {1}
    /\ pending_requests = {2}
    /\ callbacks = [i \in {1, 2} |-> IF i = 1 THEN "cb_raise" ELSE "cb_ok"]

\* C38: get_pending_requests(user_id) returns exactly the pending requests
\* whose owner is user_id, for every owner id given, and
\* get_user_requests(user_id) returns for each of pending, approved and
\* rejected exactly that owner's requests held in that partition; neither
\* call changes the gate.
C38_QueriesFilterByOwner ==
    [][ /\ ( call'.op = "get_pending_requests" /\ call'.user_id # None ) =>
              /\ ret' = OwnedIn(pending_requests, call'.user_id)
              /\ UNCHANGED gate_vars
        /\ call'.op = "get_user_requests" =>
              /\ ret'.pending = OwnedIn(pending_requests, call'.user_id)
              /\ ret'.approved = OwnedIn(approved_requests, call'.user_id)
              /\ ret'.rejected = OwnedIn(rejected_requests, call'.user_id)
              /\ UNCHANGED gate_vars
      ]_vars

\* the same for the owner ids that are not the empty string
QueriesFilterByNonEmptyOwner ==
    [][ /\ ( call'.op = "get_pending_requests" /\ call'.user_id \notin {None, ""} ) =>
              /\ ret' = OwnedIn(pending_requests, call'.user_id)
              /\ UNCHANGED gate_vars
        /\ call'.op = "get_user_requests" =>
              /\ ret'.pending = OwnedIn(pending_requests, call'.user_id)
              /\ ret'.approved = OwnedIn(approved_requests, call'.user_id)
              /\ ret'.rejected = OwnedIn(rejected_requests, call'.user_id)
              /\ UNCHANGED gate_vars
      ]_vars

\* the agent most recently registered under name, as get_agent would give it
LastRegistered(name) ==
    IF name \in DOMAIN registered THEN Just(registered[name]) ELSE Nothing

\* C39: register_agent is an upsert: registering an agent under a name
\* already in use replaces the earlier agent without error, get_agent(name)
\* and later workflow runs use the most recently registered agent, and the
\* entries for all other names and the execution history are unchanged.
C39_RegisterIsUpsert ==
    [][ /\ \A name \in WorkflowNames : get_agent(name)' = LastRegistered(name)'
        /\ \A name \in AgentNames :
             LastRegistered(name)' # LastRegistered(name) =>
                /\ get_agent(name)' = LastRegistered(name)'
                /\ \A other \in WorkflowNames \ {name} :
                      get_agent(other)' = get_agent(other)
                /\ execution_history' = execution_history
                /\ co' = co
                /\ exc' = None
        /\ Len(execution_history') = Len(execution_history) + 1 =>
             LET record == execution_history'[Len(execution_history')]
                 name == record.agent IN
             IF name \in DOMAIN registered
             THEN /\ record.status # "skipped"
                  /\ record.result =
                        StepResult(Execute(registered[name], co.result), name)
             ELSE record.status = "skipped"
      ]_vars

\* C39 witness: within one run, A was replaced between two steps; the first
\* step ran the earlier agent, the second the later one, and B, registered
\* before the replacement, is still there
C39_Witness ==
    /\ Len(execution_history) = 2
    /\ execution_history[1].agent = "A"
    /\ execution_history[1].result = [k \in {"x"} |-> PyInt(1)]
    /\ execution_history[2].agent = "A"
    /\ execution_history[2].result = EmptyDict
    /\ get_agent("A") = Just(Agent("A", "returns_empty"))
    /\ get_agent("B") = Just(Agent("B", "raises"))

\* C40: no sequence of ApprovalGate and WorkflowManager operations ever
\* gives a request the status expired or removes a pending request because
\* of its age: every request held by the gate has status pending, approved
\* or rejected, and a pending request leaves the pending partition only
\* through approve, reject or cancel.
C40_NeverExpiredNorReaped ==
    [][ /\ \A i \in Held' :
             /\ requests'[i].status \in {PENDING, APPROVED, REJECTED}
             /\ requests'[i].status # EXPIRED
        /\ \A i \in pending_requests \ pending_requests' :
             /\ call'.op \in {"approve_request", "reject_request", "cancel_request"}
             /\ call'.request_id = i
             /\ ret' = TRUE
      ]_vars

\* C40 witness: a purge has just removed a reviewed request, and a pending
\* request created before the purge's cutoff is still pending
C40_Witness ==
    /\ call.op = "clear_old_requests"
    /\ ret >= 1
    /\ \E i \in pending_requests :
          /\ requests[i].created_at < now - call.days
          /\ requests[i].status = PENDING
====
